---- MODULE Spec2Model ----
(***************************************************************************)
(* The pprof web example of vdntruong/gosamurai: the package-level map     *)
(* userCache guarded by the sync.RWMutex cacheMu, the request handlers     *)
(* that write and read it, the request counter guarded by countMu, and the *)
(* background worker that deletes one entry per tick while the map holds   *)
(* more than a threshold of entries.                                       *)
(*                                                                         *)
(* Every goroutine is a process with a program position; one action is one *)
(* atomic step of its code (a lock call, a map access, an unlock).         *)
(***************************************************************************)
EXTENDS Integers, FiniteSets, Sequences, TLC

(***************************************************************************)
(* Bounds.  The background worker compares len(userCache) with the        *)
(* literal 10000 (`if len(userCache) > 10000`); Threshold is that literal  *)
(* scaled down so that the map can be filled beyond it.  A request may ask *)
(* for up to Threshold + 2 users, which lets the map exceed the threshold  *)
(* by two.  MaxRequests caps the uint64 requestCount: no further           *)
(* /api/users request is taken once that many are counted or in progress.  *)
(***************************************************************************)
Threshold == 3

MaxRequests == 2

MaxCount == Threshold + 2

\* The request goroutines net/http runs concurrently (two are modelled).
Handlers == {"h1", "h2"}

\* rand.Intn(100) of the user's metadata, scaled to two outcomes.
Scores == {0, 1}

Ids == 1 .. MaxCount

Counts == 0 .. MaxCount

\* The largest count of the requests served concurrently.
ConcCount == 2

ConcCounts == 0 .. ConcCount

ConcIds == 1 .. ConcCount

\* Nobody: the holder of a free mutex.
Nobody == "nobody"

\* &User{ID: id, ..., Metadata: {"score": s}}; Name and Email are functions of ID.
User(id, s) == [ID |-> id, Score |-> s]

\* The nil *User a map lookup yields for a missing key.
NilUser == [ID |-> 0, Score |-> 0]

VARIABLES
    userCache,      \* map[int]*User: a function from the present keys to users
    cacheMu,        \* sync.RWMutex: [w: holder of the writer mutex, readers: set]
    requestCount,   \* uint64 counter of served requests
    countMu,        \* sync.Mutex guarding requestCount: its holder
    pc,             \* position of each handler goroutine
    count,          \* createUsersHandler: the count parameter
    i,              \* createUsersHandler: the loop index
    user,           \* createUsersHandler: the user built in this iteration
    key,            \* lookup: the id asked for
    res,            \* statsHandler: cacheSize / count read; lookup: the result
    wpc,            \* position of the background worker
    before,         \* history: the map when the writer inside took the lock
    lastPut,        \* history: per id, the user stored since the last tick
    lastLock,       \* history: per id, the user of the Put that took the lock last
    inserted,       \* history: the ids stored so far
    gone,           \* history: the ids deleted and not stored again
    ticked,         \* history: the body of a tick has run
    removed,        \* history: a tick has deleted an entry
    running,        \* goroutineLeakHandler: goroutines spawned, not yet at <-ch
    parked,         \* goroutineLeakHandler: goroutines blocked in <-ch
    spawned,        \* history: the `go` statements executed
    leakSum,        \* history: the sum of the counts of the leak requests done
    leakPos,        \* history: the sum of their positive counts
    query,          \* createUsersHandler: the count parameter of the request
    maxAsked,       \* history: the largest count of the /api/users requests
    sumAsked,       \* history: the sum of the counts of the /api/users requests
    loaded,         \* incrementCounter: the value of requestCount read by requestCount++
    incCalls,       \* history: the calls of incrementCounter that have returned
    pos,            \* CLI: position of main and of the goroutines of runAllWorkloads
    args,           \* CLI: the flags after flag.Parse()
    allWg,          \* CLI: the WaitGroup counter of runAllWorkloads
    gorWg,          \* CLI: the WaitGroup counter of runGoroutineWorkload
    gi,             \* CLI: the loop index of runGoroutineWorkload
    gw,             \* CLI: position of each goroutine of runGoroutineWorkload
    startChan,      \* CLI: "open" or "closed"
    defers,         \* CLI: the deferred calls of main, last deferred first
    fatal,          \* CLI: the message of log.Fatal, "" while none
    events,         \* history: what the CLI has started, written and stopped
    ran,            \* history: the workloads begun
    dpc,            \* DoneAfter: position of the caller
    dworker,        \* DoneAfter: position of the goroutine
    ch,             \* DoneAfter: the buffer of ch
    sleepLeft,      \* DoneAfter: the ticks time.Sleep still lasts, -1 outside it
    timerLeft,      \* DoneAfter: the ticks until the timer of time.After is due, -1 when none
    done,           \* DoneAfter: the value the select received from ch
    lag,            \* history: the ticks passed while the caller or the timer was due
    timerC,         \* DoneAfter: the channel of time.After holds the time
    printed,        \* DoneAfter: the lines printed
    fcall           \* fibonacci, fibonacciCompute: the call in progress, [pc, n, i, result]

\* The state of goroutineLeakHandler and of the goroutines it leaves behind.
leakVars == <<running, parked, spawned, leakSum, leakPos>>

\* The state of the web application.
webVars == <<userCache, cacheMu, requestCount, countMu, pc, count, i, user, key,
             res, wpc, before, lastPut, lastLock, inserted, gone, ticked, removed,
             running, parked, spawned, leakSum, leakPos,
             query, maxAsked, sumAsked, loaded, incCalls,
             fcall>>

\* The state of the CLI application.
cliVars == <<pos, args, allWg, gorWg, gi, gw, startChan, defers, fatal, events, ran>>

\* The state of DoneAfter.
timeVars == <<dpc, dworker, ch, sleepLeft, timerLeft, timerC, done, lag, printed>>

\* The count parameter of /api/users and what was asked through it.
queryVars == <<query, maxAsked, sumAsked>>

\* The state of incrementCounter beside requestCount and countMu.
countVars == <<loaded, incCalls>>

\* The state of a call of fibonacci and of a call of fibonacciCompute.
fibVars == <<fcall>>

\* The state of the programs beside the cache.
elsewhere == <<leakVars, cliVars, timeVars, queryVars, countVars, fibVars>>

vars == <<userCache, cacheMu, requestCount, countMu, pc, count, i, user, key,
          res, wpc, before, lastPut, lastLock, inserted, gone, ticked, removed,
          elsewhere>>

hist == <<before, lastPut, lastLock, inserted, gone, ticked, removed>>

----
(***************************************************************************)
(* The Go map operations.                                                  *)
(***************************************************************************)

\* A len that misses one entry.
MapLenOffByOne(m) == IF DOMAIN m = {} THEN 0 ELSE Cardinality(DOMAIN m) - 1

\* len(m)
MapLen(m) == Cardinality(DOMAIN m)

\* A store that leaves a key already present alone.
MapStoreKeepOld(m, id, u) ==
    [k \in (DOMAIN m) \cup {id} |-> IF k \in DOMAIN m THEN m[k] ELSE u]

\* A store that replaces the map by a map of the one key.
MapStoreClobber(m, id, u) == [k \in {id} |-> u]

\* m[id] = u
MapStore(m, id, u) == [k \in (DOMAIN m) \cup {id} |-> IF k = id THEN u ELSE m[k]]

\* A delete that removes nothing.
MapDeleteNothing(m, id) == m

\* A delete that also clears the users left in the map.
MapDeleteScrub(m, id) == [k \in (DOMAIN m) \ {id} |-> [ID |-> 0, Score |-> 0]]

\* delete(m, id)
MapDelete(m, id) == [k \in (DOMAIN m) \ {id} |-> m[k]]

\* u, ok := m[id]
MapLookup(m, id) ==
    IF id \in DOMAIN m THEN [found |-> TRUE, user |-> m[id]]
                       ELSE [found |-> FALSE, user |-> NilUser]

\* The empty map of make(map[int]*User).
EmptyMap == [k \in {} |-> NilUser]

----
(***************************************************************************)
(* sync.RWMutex.  Lock takes the writer mutex, which keeps later RLock     *)
(* calls out, and then waits for the readers inside to leave.              *)
(***************************************************************************)

\* A Lock that takes the writer mutex although it is held.
CanLockHeld(mu) == TRUE

\* rw.Lock(), first half: the writer mutex is free.
CanLock(mu) == mu.w = Nobody

\* A Lock that does not wait for the readers inside.
CanEnterPastReaders(mu) == TRUE

\* rw.Lock(), second half: no reader is left inside.
CanEnter(mu) == mu.readers = {}

\* rw.RLock(): no writer holds or waits for the lock.
CanRLock(mu) == mu.w = Nobody

\* No user stored at any id since the last tick.
NoPuts == [k \in Ids |-> NilUser]

\* A handler's locals before it has read anything.
NoRes == [found |-> FALSE, user |-> NilUser, size |-> 0, count |-> 0]

\* The largest value of the -goroutines flag.
MaxGoroutines == 2

\* The goroutines started by runAllWorkloads, named by the workload they run.
AllProcs == {"cpu", "memory", "goroutines"}

\* The goroutines of the CLI application beside those of runGoroutineWorkload.
CLIProcs == AllProcs \cup {"main"}

\* The command line without a -workload flag.
Absent == "absent"

\* The -workload flags tried: the four workload types, one other value, none.
WorkloadArgs == {"cpu", "memory", "goroutines", "all", "bogus", Absent}

\* The flags that name a profile file.
Profiles == {"cpuprofile", "trace", "memprofile", "blockprofile", "mutexprofile"}

\* count := 100, the count of a request without a count parameter, scaled
\* down with the threshold, which it stays below.
DefaultCount == 2

\* The request carries no count parameter.
NoCount == [kind |-> "absent", n |-> 0]

\* The count parameters tried: none, one that is not a number ("abc"), and
\* the numbers from -1 to one above the threshold.
Queries ==
    {NoCount, [kind |-> "junk", n |-> 0]}
        \cup {[kind |-> "number", n |-> v] : v \in -1 .. Threshold + 1}

\* count := 100; if c != "" { fmt.Sscanf(c, "%d", &count) }: a parameter that
\* does not scan leaves the default.
EffectiveCount(q) == IF q.kind = "number" THEN q.n ELSE DefaultCount

\* The flags before flag.Parse().
NoArgs == [given |-> Absent, workload |-> "", profiles |-> {}, goroutines |-> 0]

\* One tick of the clock of DoneAfter is 1/TicksPerSecond of a second.
TicksPerSecond == 5

TypeOK ==
    /\ DOMAIN userCache \subseteq Ids
    /\ cacheMu.w \in Handlers \cup {"worker", Nobody}
    /\ cacheMu.readers \subseteq Handlers
    /\ requestCount \in 0 .. MaxRequests
    /\ countMu \in Handlers \cup {Nobody}

Init ==
    /\ userCache = EmptyMap
    /\ cacheMu = [w |-> Nobody, readers |-> {}]
    /\ requestCount = 0
    /\ countMu = Nobody
    /\ pc = [p \in Handlers |-> "idle"]
    /\ count = [p \in Handlers |-> 0]
    /\ i = [p \in Handlers |-> 0]
    /\ user = [p \in Handlers |-> NilUser]
    /\ key = [p \in Handlers |-> 0]
    /\ res = [p \in Handlers |-> NoRes]
    /\ wpc = "wait"
    /\ before = EmptyMap
    /\ lastPut = NoPuts
    /\ lastLock = NoPuts
    /\ inserted = {}
    /\ gone = {}
    /\ ticked = FALSE
    /\ removed = FALSE
    /\ running = 0
    /\ parked = 0
    /\ spawned = 0
    /\ leakSum = 0
    /\ leakPos = 0
    /\ query = [p \in Handlers |-> NoCount]
    /\ maxAsked = 0
    /\ sumAsked = 0
    /\ loaded = [p \in Handlers |-> 0]
    /\ incCalls = 0
    /\ pos = [g \in CLIProcs |-> IF g = "main" THEN "parse" ELSE "none"]
    /\ args = NoArgs
    /\ allWg = 0
    /\ gorWg = 0
    /\ gi = 0
    /\ gw = [k \in 1 .. MaxGoroutines |-> "none"]
    /\ startChan = "open"
    /\ defers = <<>>
    /\ fatal = ""
    /\ events = <<>>
    /\ ran = {}
    /\ dpc = "start"
    /\ dworker = "none"
    /\ ch = <<>>
    /\ sleepLeft = -1
    /\ timerLeft = -1
    /\ done = ""
    /\ lag = 0
    /\ timerC = FALSE
    /\ printed = <<>>
    /\ fcall = [pc |-> "idle", n |-> 0, i |-> 0, result |-> <<0, 0, 0, 0>>]

----
(***************************************************************************)
(* createUsersHandler: for i := 0; i < count; i++ { build the user; Lock;  *)
(* userCache[user.ID] = user; Unlock }, then incrementCounter().           *)
(***************************************************************************)

\* The handlers inside createUsersHandler.
InUsers == {p \in Handlers : pc[p] \in {"loop", "lock", "enter", "store", "unlock",
                                        "incLock", "incAdd", "incStore", "incUnlock"}}

\* A GET /api/users?count=c request arrives.
StartUsers(p, c) ==
    /\ pc[p] = "idle"
    /\ requestCount + Cardinality(InUsers) < MaxRequests
    /\ pc' = [pc EXCEPT ![p] = "loop"]
    /\ count' = [count EXCEPT ![p] = c]
    /\ i' = [i EXCEPT ![p] = 0]
    /\ UNCHANGED <<userCache, cacheMu, requestCount, countMu, user, key, res, wpc>>
    /\ UNCHANGED hist
    /\ UNCHANGED elsewhere

\* One more than the test of the loop allows: for i := 0; i <= count; i++.
LoopUsersInclusive(p) ==
    /\ pc[p] = "loop"
    /\ IF i[p] <= count[p]
          THEN /\ \E s \in Scores : user' = [user EXCEPT ![p] = User(i[p] + 1, s)]
               /\ pc' = [pc EXCEPT ![p] = "lock"]
          ELSE /\ user' = user
               /\ pc' = [pc EXCEPT ![p] = "incLock"]
    /\ UNCHANGED <<userCache, cacheMu, requestCount, countMu, count, i, key, res, wpc>>
    /\ UNCHANGED hist
    /\ UNCHANGED elsewhere

\* A loop that builds the user with ID i.
LoopUsersZeroBased(p) ==
    /\ pc[p] = "loop"
    /\ IF i[p] < count[p]
          THEN /\ \E s \in Scores : user' = [user EXCEPT ![p] = User(i[p], s)]
               /\ pc' = [pc EXCEPT ![p] = "lock"]
          ELSE /\ user' = user
               /\ pc' = [pc EXCEPT ![p] = "incLock"]
    /\ UNCHANGED <<userCache, cacheMu, requestCount, countMu, count, i, key, res, wpc>>
    /\ UNCHANGED hist
    /\ UNCHANGED elsewhere

\* The loop header and the construction of the user with ID i+1.
LoopUsers(p) ==
    /\ pc[p] = "loop"
    /\ IF i[p] < count[p]
          THEN /\ \E s \in Scores : user' = [user EXCEPT ![p] = User(i[p] + 1, s)]
               /\ pc' = [pc EXCEPT ![p] = "lock"]
          ELSE /\ user' = user
               /\ pc' = [pc EXCEPT ![p] = "incLock"]
    /\ UNCHANGED <<userCache, cacheMu, requestCount, countMu, count, i, key, res, wpc>>
    /\ UNCHANGED hist
    /\ UNCHANGED elsewhere

\* cacheMu.Lock(): take the writer mutex.
LockUsers(p) ==
    /\ pc[p] = "lock"
    /\ CanLock(cacheMu)
    /\ cacheMu' = [cacheMu EXCEPT !.w = p]
    /\ pc' = [pc EXCEPT ![p] = "enter"]
    /\ UNCHANGED <<userCache, requestCount, countMu, count, i, user, key, res, wpc>>
    /\ UNCHANGED hist
    /\ UNCHANGED elsewhere

\* cacheMu.Lock() returns once the readers have left.
EnterUsers(p) ==
    /\ pc[p] = "enter"
    /\ CanEnter(cacheMu)
    /\ pc' = [pc EXCEPT ![p] = "store"]
    /\ before' = userCache
    /\ lastLock' = [lastLock EXCEPT ![user[p].ID] = user[p]]
    /\ UNCHANGED <<userCache, cacheMu, requestCount, countMu, count, i, user, key, res, wpc>>
    /\ UNCHANGED <<lastPut, inserted, gone, ticked, removed>>
    /\ UNCHANGED elsewhere

\* userCache[user.ID] = user
StoreUsers(p) ==
    /\ pc[p] = "store"
    /\ userCache' = MapStore(userCache, user[p].ID, user[p])
    /\ pc' = [pc EXCEPT ![p] = "unlock"]
    /\ lastPut' = [lastPut EXCEPT ![user[p].ID] = user[p]]
    /\ inserted' = inserted \cup {user[p].ID}
    /\ gone' = gone \ {user[p].ID}
    /\ UNCHANGED <<cacheMu, requestCount, countMu, count, i, user, key, res, wpc>>
    /\ UNCHANGED <<before, lastLock, ticked, removed>>
    /\ UNCHANGED elsewhere

\* An iteration that ends without cacheMu.Unlock().
UnlockUsersKeepLock(p) ==
    /\ pc[p] = "unlock"
    /\ i' = [i EXCEPT ![p] = i[p] + 1]
    /\ user' = [user EXCEPT ![p] = NilUser]
    /\ pc' = [pc EXCEPT ![p] = "loop"]
    /\ before' = EmptyMap
    /\ UNCHANGED <<userCache, cacheMu, requestCount, countMu, count, key, res, wpc>>
    /\ UNCHANGED <<lastPut, lastLock, inserted, gone, ticked, removed>>
    /\ UNCHANGED elsewhere

\* cacheMu.Unlock() and the loop's i++.
UnlockUsers(p) ==
    /\ pc[p] = "unlock"
    /\ cacheMu' = [cacheMu EXCEPT !.w = Nobody]
    /\ i' = [i EXCEPT ![p] = i[p] + 1]
    /\ user' = [user EXCEPT ![p] = NilUser]
    /\ pc' = [pc EXCEPT ![p] = "loop"]
    /\ before' = EmptyMap
    /\ UNCHANGED <<userCache, requestCount, countMu, count, key, res, wpc>>
    /\ UNCHANGED <<lastPut, lastLock, inserted, gone, ticked, removed>>
    /\ UNCHANGED elsewhere

\* An incrementCounter that does not wait for countMu.
IncLockFree(p) ==
    /\ pc[p] = "incLock"
    /\ countMu' = p
    /\ pc' = [pc EXCEPT ![p] = "incAdd"]
    /\ UNCHANGED <<userCache, cacheMu, requestCount, count, i, user, key, res, wpc>>
    /\ UNCHANGED hist
    /\ UNCHANGED elsewhere

\* incrementCounter: countMu.Lock()
IncLock(p) ==
    /\ pc[p] = "incLock"
    /\ countMu = Nobody
    /\ countMu' = p
    /\ pc' = [pc EXCEPT ![p] = "incAdd"]
    /\ UNCHANGED <<userCache, cacheMu, requestCount, count, i, user, key, res, wpc>>
    /\ UNCHANGED hist
    /\ UNCHANGED elsewhere

\* incrementCounter: requestCount++
IncAdd(p) ==
    /\ pc[p] = "incAdd"
    /\ requestCount' = requestCount + 1
    /\ pc' = [pc EXCEPT ![p] = "incUnlock"]
    /\ UNCHANGED <<userCache, cacheMu, countMu, count, i, user, key, res, wpc>>
    /\ UNCHANGED hist
    /\ UNCHANGED elsewhere

\* incrementCounter: requestCount++, the read of requestCount.
IncLoad(p) ==
    /\ pc[p] = "incAdd"
    /\ loaded' = [loaded EXCEPT ![p] = requestCount]
    /\ pc' = [pc EXCEPT ![p] = "incStore"]
    /\ UNCHANGED <<userCache, cacheMu, requestCount, countMu, count, i, user, key, res, wpc>>
    /\ UNCHANGED hist
    /\ UNCHANGED <<leakVars, cliVars, timeVars, fibVars, queryVars, incCalls>>

\* incrementCounter: requestCount++, the write of the value read plus one.
IncStore(p) ==
    /\ pc[p] = "incStore"
    /\ requestCount' = loaded[p] + 1
    /\ loaded' = [loaded EXCEPT ![p] = 0]
    /\ pc' = [pc EXCEPT ![p] = "incUnlock"]
    /\ UNCHANGED <<userCache, cacheMu, countMu, count, i, user, key, res, wpc>>
    /\ UNCHANGED hist
    /\ UNCHANGED <<leakVars, cliVars, timeVars, fibVars, queryVars, incCalls>>

\* incrementCounter: countMu.Unlock(); the handler writes its response and returns.
IncUnlock(p) ==
    /\ pc[p] = "incUnlock"
    /\ countMu' = Nobody
    /\ pc' = [pc EXCEPT ![p] = "idle"]
    /\ count' = [count EXCEPT ![p] = 0]
    /\ i' = [i EXCEPT ![p] = 0]
    /\ incCalls' = incCalls + 1
    /\ UNCHANGED <<userCache, cacheMu, requestCount, user, key, res, wpc>>
    /\ UNCHANGED hist
    /\ UNCHANGED <<leakVars, cliVars, timeVars, fibVars, queryVars, loaded>>

----
(***************************************************************************)
(* createUsersHandler from the request on: count := 100, replaced by the   *)
(* count parameter when it scans; users := make([]*User, count), which     *)
(* panics for a negative count: net/http recovers the panic and the        *)
(* request ends there, before the loop and before incrementCounter().      *)
(***************************************************************************)

\* The handlers between the request and the make.
InMake == {p \in Handlers : pc[p] = "make"}

\* The larger of two counts.
Max(a, b) == IF a >= b THEN a ELSE b

\* A GET /api/users request with the count parameter q arrives.
UsersRequest(p, q) ==
    /\ pc[p] = "idle"
    /\ requestCount + Cardinality(InUsers) + Cardinality(InMake) < MaxRequests
    /\ query' = [query EXCEPT ![p] = q]
    /\ count' = [count EXCEPT ![p] = EffectiveCount(q)]
    /\ i' = [i EXCEPT ![p] = 0]
    /\ pc' = [pc EXCEPT ![p] = "make"]
    /\ UNCHANGED <<userCache, cacheMu, requestCount, countMu, user, key, res, wpc>>
    /\ UNCHANGED hist
    /\ UNCHANGED <<leakVars, cliVars, timeVars, fibVars, countVars, maxAsked, sumAsked>>

\* users := make([]*User, count)
MakeUsers(p) ==
    /\ pc[p] = "make"
    /\ IF count[p] < 0
          THEN /\ pc' = [pc EXCEPT ![p] = "idle"]
               /\ count' = [count EXCEPT ![p] = 0]
               /\ UNCHANGED <<maxAsked, sumAsked>>
          ELSE /\ pc' = [pc EXCEPT ![p] = "loop"]
               /\ maxAsked' = Max(maxAsked, count[p])
               /\ sumAsked' = sumAsked + count[p]
               /\ count' = count
    /\ UNCHANGED <<userCache, cacheMu, requestCount, countMu, i, user, key, res, wpc>>
    /\ UNCHANGED hist
    /\ UNCHANGED <<leakVars, cliVars, timeVars, fibVars, countVars, query>>

----
(***************************************************************************)
(* statsHandler: RLock; cacheSize := len(userCache); RUnlock; then the     *)
(* counter is read under countMu.                                          *)
(***************************************************************************)

\* A GET /api/stats request arrives.
StartStats(p) ==
    /\ pc[p] = "idle"
    /\ pc' = [pc EXCEPT ![p] = "statsRLock"]
    /\ UNCHANGED <<userCache, cacheMu, requestCount, countMu, count, i, user, key, res, wpc>>
    /\ UNCHANGED hist
    /\ UNCHANGED elsewhere

\* cacheMu.RLock()
StatsRLock(p) ==
    /\ pc[p] = "statsRLock"
    /\ CanRLock(cacheMu)
    /\ cacheMu' = [cacheMu EXCEPT !.readers = @ \cup {p}]
    /\ pc' = [pc EXCEPT ![p] = "statsRead"]
    /\ UNCHANGED <<userCache, requestCount, countMu, count, i, user, key, res, wpc>>
    /\ UNCHANGED hist
    /\ UNCHANGED elsewhere

\* cacheSize := len(userCache)
StatsRead(p) ==
    /\ pc[p] = "statsRead"
    /\ res' = [res EXCEPT ![p].size = MapLen(userCache)]
    /\ pc' = [pc EXCEPT ![p] = "statsRUnlock"]
    /\ UNCHANGED <<userCache, cacheMu, requestCount, countMu, count, i, user, key, wpc>>
    /\ UNCHANGED hist
    /\ UNCHANGED elsewhere

\* cacheMu.RUnlock()
StatsRUnlock(p) ==
    /\ pc[p] = "statsRUnlock"
    /\ cacheMu' = [cacheMu EXCEPT !.readers = @ \ {p}]
    /\ pc' = [pc EXCEPT ![p] = "statsCLock"]
    /\ UNCHANGED <<userCache, requestCount, countMu, count, i, user, key, res, wpc>>
    /\ UNCHANGED hist
    /\ UNCHANGED elsewhere

\* countMu.Lock()
StatsCLock(p) ==
    /\ pc[p] = "statsCLock"
    /\ countMu = Nobody
    /\ countMu' = p
    /\ pc' = [pc EXCEPT ![p] = "statsCRead"]
    /\ UNCHANGED <<userCache, cacheMu, requestCount, count, i, user, key, res, wpc>>
    /\ UNCHANGED hist
    /\ UNCHANGED elsewhere

\* count := requestCount
StatsCRead(p) ==
    /\ pc[p] = "statsCRead"
    /\ res' = [res EXCEPT ![p].count = requestCount]
    /\ pc' = [pc EXCEPT ![p] = "statsCUnlock"]
    /\ UNCHANGED <<userCache, cacheMu, requestCount, countMu, count, i, user, key, wpc>>
    /\ UNCHANGED hist
    /\ UNCHANGED elsewhere

\* countMu.Unlock(); the handler writes its response and returns.
StatsCUnlock(p) ==
    /\ pc[p] = "statsCUnlock"
    /\ countMu' = Nobody
    /\ res' = [res EXCEPT ![p] = NoRes]
    /\ pc' = [pc EXCEPT ![p] = "idle"]
    /\ UNCHANGED <<userCache, cacheMu, requestCount, count, i, user, key, wpc>>
    /\ UNCHANGED hist
    /\ UNCHANGED elsewhere

----
(***************************************************************************)
(* Get(id) of the specification's BoundedCache: RLock; u, ok :=            *)
(* userCache[id]; RUnlock.  The example's handlers never look a key up, so *)
(* this operation is modelled from the specification.                      *)
(***************************************************************************)

\* Get(id) is called.
StartGet(p, id) ==
    /\ pc[p] = "idle"
    /\ key' = [key EXCEPT ![p] = id]
    /\ pc' = [pc EXCEPT ![p] = "getRLock"]
    /\ UNCHANGED <<userCache, cacheMu, requestCount, countMu, count, i, user, res, wpc>>
    /\ UNCHANGED hist
    /\ UNCHANGED elsewhere

\* cacheMu.RLock()
GetRLock(p) ==
    /\ pc[p] = "getRLock"
    /\ CanRLock(cacheMu)
    /\ cacheMu' = [cacheMu EXCEPT !.readers = @ \cup {p}]
    /\ pc' = [pc EXCEPT ![p] = "getRead"]
    /\ UNCHANGED <<userCache, requestCount, countMu, count, i, user, key, res, wpc>>
    /\ UNCHANGED hist
    /\ UNCHANGED elsewhere

\* u, ok := userCache[id]
GetRead(p) ==
    /\ pc[p] = "getRead"
    /\ res' = [res EXCEPT ![p].found = MapLookup(userCache, key[p]).found,
                          ![p].user = MapLookup(userCache, key[p]).user]
    /\ pc' = [pc EXCEPT ![p] = "getRUnlock"]
    /\ UNCHANGED <<userCache, cacheMu, requestCount, countMu, count, i, user, key, wpc>>
    /\ UNCHANGED hist
    /\ UNCHANGED elsewhere

\* cacheMu.RUnlock(); Get returns (u, ok).
GetRUnlock(p) ==
    /\ pc[p] = "getRUnlock"
    /\ cacheMu' = [cacheMu EXCEPT !.readers = @ \ {p}]
    /\ res' = [res EXCEPT ![p] = NoRes]
    /\ key' = [key EXCEPT ![p] = 0]
    /\ pc' = [pc EXCEPT ![p] = "idle"]
    /\ UNCHANGED <<userCache, requestCount, countMu, count, i, user, wpc>>
    /\ UNCHANGED hist
    /\ UNCHANGED elsewhere

----
(***************************************************************************)
(* backgroundWorker: for range ticker.C { Lock; if len(userCache) > 10000  *)
(* { for id := range userCache { delete(userCache, id); break } }; Unlock }*)
(***************************************************************************)

\* delete(m, id) for every id of ks.
RECURSIVE DeleteAll(_, _)
DeleteAll(m, ks) ==
    IF ks = {} THEN m
    ELSE LET id == CHOOSE k \in ks : TRUE
         IN  DeleteAll(MapDelete(m, id), ks \ {id})

\* A tick whose range loop has no break: it deletes every key.
VictimsNoBreak(m) ==
    IF Cardinality(DOMAIN m) > Threshold THEN {DOMAIN m} ELSE {{}}

\* A tick that compares with >= instead of >.
VictimsAtThreshold(m) ==
    IF Cardinality(DOMAIN m) >= Threshold /\ DOMAIN m # {}
       THEN {{id} : id \in DOMAIN m}
       ELSE {{}}

\* A tick that deletes until the map is back at the threshold.
VictimsDrain(m) ==
    IF Cardinality(DOMAIN m) > Threshold
       THEN {ks \in SUBSET (DOMAIN m) :
                Cardinality(ks) = Cardinality(DOMAIN m) - Threshold}
       ELSE {{}}

\* A tick that always deletes the smallest key, the oldest user.
VictimsOldest(m) ==
    IF Cardinality(DOMAIN m) > Threshold
       THEN {{CHOOSE id \in DOMAIN m : \A k \in DOMAIN m : id <= k}}
       ELSE {{}}

\* The sets of keys the body of a tick may delete: when the map is larger than
\* the threshold, the one key the range loop yields first, which Go leaves
\* unspecified (the loop breaks after its first delete); no key otherwise.
Victims(m) ==
    IF MapLen(m) > Threshold
       THEN {{id} : id \in DOMAIN m}
       ELSE {{}}

\* A ticker that is stopped after its first tick has been served.
TickOnce ==
    /\ wpc = "wait"
    /\ ~ticked
    /\ wpc' = "lock"
    /\ UNCHANGED <<userCache, cacheMu, requestCount, countMu, pc, count, i, user, key, res>>
    /\ UNCHANGED hist
    /\ UNCHANGED elsewhere

\* The ticker delivers a tick on ticker.C.
Tick ==
    /\ wpc = "wait"
    /\ wpc' = "lock"
    /\ UNCHANGED <<userCache, cacheMu, requestCount, countMu, pc, count, i, user, key, res>>
    /\ UNCHANGED hist
    /\ UNCHANGED elsewhere

\* cacheMu.Lock(): take the writer mutex.
WorkerLock ==
    /\ wpc = "lock"
    /\ CanLock(cacheMu)
    /\ cacheMu' = [cacheMu EXCEPT !.w = "worker"]
    /\ wpc' = "enter"
    /\ UNCHANGED <<userCache, requestCount, countMu, pc, count, i, user, key, res>>
    /\ UNCHANGED hist
    /\ UNCHANGED elsewhere

\* cacheMu.Lock() returns once the readers have left.
WorkerEnter ==
    /\ wpc = "enter"
    /\ CanEnter(cacheMu)
    /\ wpc' = "check"
    /\ before' = userCache
    /\ UNCHANGED <<userCache, cacheMu, requestCount, countMu, pc, count, i, user, key, res>>
    /\ UNCHANGED <<lastPut, lastLock, inserted, gone, ticked, removed>>
    /\ UNCHANGED elsewhere

\* The body of the tick: the size check and the deletion of one entry.
WorkerCheck ==
    /\ wpc = "check"
    /\ \E ks \in Victims(userCache) :
          /\ userCache' = DeleteAll(userCache, ks)
          /\ gone' = gone \cup ks
          /\ lastLock' = [k \in Ids |-> IF k \in ks THEN NilUser ELSE lastLock[k]]
          /\ removed' = (removed \/ ks # {})
    /\ wpc' = "unlock"
    /\ lastPut' = NoPuts
    /\ ticked' = TRUE
    /\ UNCHANGED <<cacheMu, requestCount, countMu, pc, count, i, user, key, res>>
    /\ UNCHANGED <<before, inserted>>
    /\ UNCHANGED elsewhere

\* cacheMu.Unlock(); the worker waits for the next tick.
WorkerUnlock ==
    /\ wpc = "unlock"
    /\ cacheMu' = [cacheMu EXCEPT !.w = Nobody]
    /\ wpc' = "wait"
    /\ before' = EmptyMap
    /\ UNCHANGED <<userCache, requestCount, countMu, pc, count, i, user, key, res>>
    /\ UNCHANGED <<lastPut, lastLock, inserted, gone, ticked, removed>>
    /\ UNCHANGED elsewhere

----
\* One step of the handler goroutine p; cs are the counts and ks the keys its
\* requests may carry.
HandlerStep(p, cs, ks) ==
    \/ \E c \in cs : StartUsers(p, c)
    \/ LoopUsers(p)
    \/ LockUsers(p)
    \/ EnterUsers(p)
    \/ StoreUsers(p)
    \/ UnlockUsers(p)
    \/ IncLock(p)
    \/ IncAdd(p)
    \/ IncUnlock(p)
    \/ StartStats(p)
    \/ StatsRLock(p)
    \/ StatsRead(p)
    \/ StatsRUnlock(p)
    \/ StatsCLock(p)
    \/ StatsCRead(p)
    \/ StatsCUnlock(p)
    \/ \E id \in ks : StartGet(p, id)
    \/ GetRLock(p)
    \/ GetRead(p)
    \/ GetRUnlock(p)

\* One step of the background worker.
WorkerStep ==
    \/ Tick
    \/ WorkerLock
    \/ WorkerEnter
    \/ WorkerCheck
    \/ WorkerUnlock

(***************************************************************************)
(* Spec: requests served one at a time, with counts up to MaxCount, beside *)
(* the worker.  SpecConc: two requests served concurrently, with counts up *)
(* to ConcCount, beside the worker.                                        *)
(***************************************************************************)
Next ==
    \/ HandlerStep("h1", Counts, Ids)
    \/ WorkerStep

Spec == Init /\ [][Next]_vars

NextConc ==
    \/ \E p \in Handlers : HandlerStep(p, ConcCounts, ConcIds)
    \/ WorkerStep

SpecConc == Init /\ [][NextConc]_vars

\* One step of the handler goroutine p serving /api/users with a count of cs.
UsersStep(p, cs) ==
    \/ \E c \in cs : StartUsers(p, c)
    \/ LoopUsers(p)
    \/ LockUsers(p)
    \/ EnterUsers(p)
    \/ StoreUsers(p)
    \/ UnlockUsers(p)
    \/ IncLock(p)
    \/ IncAdd(p)
    \/ IncUnlock(p)

\* SpecEvict: /api/users requests served one at a time, with counts up to
\* MaxCount, beside the worker.
NextEvict ==
    \/ UsersStep("h1", Counts)
    \/ WorkerStep

SpecEvict == Init /\ [][NextEvict]_vars

(***************************************************************************)
(* Scheduling.  A goroutine that can run is eventually run (weak fairness  *)
(* of its steps).  A goroutine waiting in Lock or RLock gets the lock if   *)
(* the lock is free again and again (strong fairness of the acquisitions): *)
(* sync.Mutex hands the lock to a waiter that has been starved, and the    *)
(* Unlock of sync.RWMutex lets in the readers that were kept out.  Nothing *)
(* obliges a request to arrive.  The ticker of the worker is never         *)
(* stopped, so a worker waiting for a tick gets one.                       *)
(***************************************************************************)

\* The steps of handler p that wait for nothing but the scheduler.
HandlerRun(p) ==
    \/ LoopUsers(p)
    \/ EnterUsers(p)
    \/ StoreUsers(p)
    \/ UnlockUsers(p)
    \/ IncAdd(p)
    \/ IncUnlock(p)
    \/ StatsRead(p)
    \/ StatsRUnlock(p)
    \/ StatsCRead(p)
    \/ StatsCUnlock(p)
    \/ GetRead(p)
    \/ GetRUnlock(p)

\* The steps of handler p that acquire a lock.
HandlerAcquire(p) ==
    \/ LockUsers(p)
    \/ IncLock(p)
    \/ StatsRLock(p)
    \/ StatsCLock(p)
    \/ GetRLock(p)

\* The steps of the worker other than taking the writer mutex.
WorkerRun ==
    \/ Tick
    \/ WorkerEnter
    \/ WorkerCheck
    \/ WorkerUnlock

Fairness ==
    /\ \A p \in Handlers : WF_vars(HandlerRun(p)) /\ SF_vars(HandlerAcquire(p))
    /\ WF_vars(WorkerRun)
    /\ SF_vars(WorkerLock)

\* The largest count of the requests served under fair scheduling.
FairCount == 1

FairCounts == 0 .. FairCount

FairIds == 1 .. FairCount

NextFair ==
    \/ \E p \in Handlers : HandlerStep(p, FairCounts, FairIds)
    \/ WorkerStep

SpecFair == Init /\ [][NextFair]_vars /\ Fairness

\* One step of the handler goroutine p serving /api/users, from the request
\* on; qs are the count parameters its requests may carry.
QueryStep(p, qs) ==
    \/ \E q \in qs : UsersRequest(p, q)
    \/ MakeUsers(p)
    \/ LoopUsers(p)
    \/ LockUsers(p)
    \/ EnterUsers(p)
    \/ StoreUsers(p)
    \/ UnlockUsers(p)
    \/ IncLock(p)
    \/ IncAdd(p)
    \/ IncUnlock(p)

\* SpecQuery: /api/users requests with any count parameter, served one at a
\* time, beside the worker.
NextQuery ==
    \/ QueryStep("h1", Queries)
    \/ WorkerStep

SpecQuery == Init /\ [][NextQuery]_vars

\* SpecEvictFair: SpecEvict under the same scheduling, the ticker included.
SpecEvictFair == Init /\ [][NextEvict]_vars /\ Fairness

----
(***************************************************************************)
(* goroutineLeakHandler: count := 10, replaced by the count parameter when *)
(* it parses; for i := 0; i < count; i++ { go func(id int) { ch :=         *)
(* make(chan struct{}); <-ch }(i) }; incrementCounter().  The channel is   *)
(* local to its goroutine: nothing else can send on it or close it, so the *)
(* receive has no step that completes it.                                  *)
(***************************************************************************)

\* The largest count of a /api/leak request.
LeakCount == 2

\* The counts a /api/leak request may carry: Sscanf("%d") reads a sign.
LeakCounts == -1 .. LeakCount

\* The handlers inside the loop of goroutineLeakHandler.
InLeak == {p \in Handlers : pc[p] = "leakLoop"}

\* A GET /api/leak?count=c request arrives.
StartLeak(p, c) ==
    /\ pc[p] = "idle"
    /\ requestCount + Cardinality(InUsers) + Cardinality(InLeak) < MaxRequests
    /\ pc' = [pc EXCEPT ![p] = "leakLoop"]
    /\ count' = [count EXCEPT ![p] = c]
    /\ i' = [i EXCEPT ![p] = 0]
    /\ UNCHANGED <<userCache, cacheMu, requestCount, countMu, user, key, res, wpc>>
    /\ UNCHANGED hist
    /\ UNCHANGED leakVars
    /\ UNCHANGED <<cliVars, timeVars, fibVars, queryVars, countVars>>

\* The loop header and the go statement; after the loop, incrementCounter().
LeakLoop(p) ==
    /\ pc[p] = "leakLoop"
    /\ IF i[p] < count[p]
          THEN /\ running' = running + 1
               /\ spawned' = spawned + 1
               /\ i' = [i EXCEPT ![p] = i[p] + 1]
               /\ UNCHANGED <<pc, leakSum, leakPos>>
          ELSE /\ pc' = [pc EXCEPT ![p] = "incLock"]
               /\ leakSum' = leakSum + count[p]
               /\ leakPos' = leakPos + (IF count[p] > 0 THEN count[p] ELSE 0)
               /\ UNCHANGED <<running, spawned, i>>
    /\ UNCHANGED <<userCache, cacheMu, requestCount, countMu, count, user, key, res, wpc>>
    /\ UNCHANGED hist
    /\ UNCHANGED parked
    /\ UNCHANGED <<cliVars, timeVars, fibVars, queryVars, countVars>>

\* A goroutine whose receive returns, so that the goroutine ends.
LeakParkReturn ==
    /\ running > 0
    /\ running' = running - 1
    /\ UNCHANGED <<userCache, cacheMu, requestCount, countMu, pc, count, i, user, key, res, wpc>>
    /\ UNCHANGED hist
    /\ UNCHANGED <<parked, spawned, leakSum, leakPos>>
    /\ UNCHANGED <<cliVars, timeVars, fibVars, queryVars, countVars>>

\* A spawned goroutine makes its channel and blocks in <-ch.
LeakPark ==
    /\ running > 0
    /\ running' = running - 1
    /\ parked' = parked + 1
    /\ UNCHANGED <<userCache, cacheMu, requestCount, countMu, pc, count, i, user, key, res, wpc>>
    /\ UNCHANGED hist
    /\ UNCHANGED <<spawned, leakSum, leakPos>>
    /\ UNCHANGED <<cliVars, timeVars, fibVars, queryVars, countVars>>

\* One step of the handler goroutine p serving /api/leak.
LeakStep(p) ==
    \/ \E c \in LeakCounts : StartLeak(p, c)
    \/ LeakLoop(p)
    \/ IncLock(p)
    \/ IncAdd(p)
    \/ IncUnlock(p)

\* SpecLeak: /api/leak requests served concurrently, and the goroutines they spawn.
NextLeak ==
    \/ \E p \in Handlers : LeakStep(p)
    \/ LeakPark

SpecLeak == Init /\ [][NextLeak]_vars

\* The goroutines of the leak handler that exist.
Leaked == running + parked

\* C17: a goroutine spawned by /api/leak blocks for ever and never ends: none
\* leaves <-ch and the goroutines alive are all those ever spawned, so their
\* number never decreases; and when no request is in its loop that number is
\* the sum of the positive counts of the requests (a request with a zero or
\* negative count spawns none).
C17_Frame ==
    /\ parked' >= parked
    /\ running' + parked' >= running + parked
    /\ running' + parked' = spawned'
    /\ (InLeak' = {}) => (running' + parked' = leakPos')

C17_LeakedIsSumOfPositiveCounts == [][C17_Frame]_vars

\* A request with count 2 and a request with count -1 have been served.
C17_Witness ==
    /\ InLeak = {}
    /\ parked = 2
    /\ running = 0
    /\ leakPos = 2
    /\ leakSum = 1
    /\ requestCount = 2

\* C17 as stated: when no request is in its loop, the goroutines leaked are
\* as many as the sum of the counts of the requests.
C17_LeakedIsSumOfCounts == (InLeak = {}) => (running + parked = leakSum)

----
(***************************************************************************)
(* The CLI application: main parses the flags, starts the CPU profile and  *)
(* the trace that were asked for, runs the workload the -workload flag     *)
(* selects, writes the memory, block and mutex profiles that were asked    *)
(* for and prints the statistics.  log.Fatal ends the process at once: the *)
(* deferred calls of main do not run.                                      *)
(***************************************************************************)

\* The process runs until main has returned or log.Fatal has ended it.
Alive == pos["main"] # "exited"

\* flag.Parse(): -workload is "all" when the flag is absent.
ParseFlags ==
    /\ pos["main"] = "parse"
    /\ \E w \in WorkloadArgs, ps \in SUBSET Profiles, n \in 0 .. MaxGoroutines :
          args' = [given |-> w,
                   workload |-> IF w = Absent THEN "all" ELSE w,
                   profiles |-> ps,
                   goroutines |-> n]
    /\ pos' = [pos EXCEPT !["main"] = "cpuProfile"]
    /\ UNCHANGED <<allWg, gorWg, gi, gw, startChan, defers, fatal, events, ran>>
    /\ UNCHANGED <<webVars, timeVars>>

\* if *flag != "" { f, err := os.Create(...); if err != nil { log.Fatal(msgCreate) };
\* defer f.Close(); the profile call, log.Fatal(msg) when it fails; its defer }:
\* main goes on from `from` to `to`, having done `ev` and deferred `dfr` (the
\* close of the file deferred first, so last in dfr), or the process ends
\* with msgCreate, or, the close being deferred already, with msg.
ProfileStep(from, to, flag, msgCreate, msg, ev, dfr) ==
    /\ pos["main"] = from
    /\ IF flag \in args.profiles
          THEN \/ /\ pos' = [pos EXCEPT !["main"] = to]
                  /\ events' = Append(events, ev)
                  /\ defers' = dfr \o defers
                  /\ fatal' = fatal
               \/ /\ pos' = [pos EXCEPT !["main"] = "exited"]
                  /\ fatal' = msgCreate
                  /\ UNCHANGED <<events, defers>>
               \/ /\ pos' = [pos EXCEPT !["main"] = "exited"]
                  /\ fatal' = msg
                  /\ defers' = <<dfr[Len(dfr)]>> \o defers
                  /\ UNCHANGED events
          ELSE /\ pos' = [pos EXCEPT !["main"] = to]
               /\ UNCHANGED <<events, defers, fatal>>
    /\ UNCHANGED <<args, allWg, gorWg, gi, gw, startChan, ran>>
    /\ UNCHANGED <<webVars, timeVars>>

\* Setup CPU profiling: defer f.Close(), then defer pprof.StopCPUProfile().
SetupCPUProfile ==
    ProfileStep("cpuProfile", "trace", "cpuprofile",
                "could not create CPU profile", "could not start CPU profile",
                "StartCPUProfile", <<"StopCPUProfile", "cpuClose">>)

\* Setup trace: defer f.Close(), then defer trace.Stop().
SetupTrace ==
    ProfileStep("trace", "switch", "trace",
                "could not create trace file", "could not start trace",
                "traceStart", <<"traceStop", "traceClose">>)

\* A switch whose default case runs all workloads.
SelectedOrAll(w) ==
    CASE w = "cpu" -> "runCPU"
      [] w = "memory" -> "runMemory"
      [] w = "goroutines" -> "runGoroutines"
      [] OTHER -> "runAll"

\* switch *workload: the function main calls, "fatal" in the default case.
Selected(w) ==
    CASE w = "cpu" -> "runCPU"
      [] w = "memory" -> "runMemory"
      [] w = "goroutines" -> "runGoroutines"
      [] w = "all" -> "runAll"
      [] OTHER -> "fatal"

\* "Starting workload..." and the switch on *workload.
Dispatch ==
    /\ pos["main"] = "switch"
    /\ events' = Append(events, "Starting workload")
    /\ IF Selected(args.workload) = "fatal"
          THEN /\ fatal' = "Unknown workload"
               /\ pos' = [pos EXCEPT !["main"] = "exited"]
          ELSE /\ fatal' = fatal
               /\ pos' = [pos EXCEPT !["main"] = Selected(args.workload)]
    /\ UNCHANGED <<args, allWg, gorWg, gi, gw, startChan, defers, ran>>
    /\ UNCHANGED <<webVars, timeVars>>

\* Where goroutine r goes on when the workload it called returns: main after
\* the switch, a goroutine of runAllWorkloads at its deferred wg.Done().
Ret(r) == IF r = "main" THEN "elapsed" ELSE "wgDone"

\* runCPUWorkload begins.
RunCPU(r) ==
    /\ Alive
    /\ pos[r] = "runCPU"
    /\ pos' = [pos EXCEPT ![r] = "cpuLoop"]
    /\ ran' = ran \cup {"cpu"}
    /\ UNCHANGED <<args, allWg, gorWg, gi, gw, startChan, defers, fatal, events>>
    /\ UNCHANGED <<webVars, timeVars>>

\* runCPUWorkload: endTime has passed, the loop ends and the function returns.
CPUDone(r) ==
    /\ Alive
    /\ pos[r] = "cpuLoop"
    /\ pos' = [pos EXCEPT ![r] = Ret(r)]
    /\ UNCHANGED <<args, allWg, gorWg, gi, gw, startChan, defers, fatal, events, ran>>
    /\ UNCHANGED <<webVars, timeVars>>

\* runMemoryWorkload begins and allocates.
RunMemory(r) ==
    /\ Alive
    /\ pos[r] = "runMemory"
    /\ pos' = [pos EXCEPT ![r] = "memSleep"]
    /\ ran' = ran \cup {"memory"}
    /\ UNCHANGED <<args, allWg, gorWg, gi, gw, startChan, defers, fatal, events>>
    /\ UNCHANGED <<webVars, timeVars>>

\* runMemoryWorkload: the sleep ends and the function returns.
MemoryDone(r) ==
    /\ Alive
    /\ pos[r] = "memSleep"
    /\ pos' = [pos EXCEPT ![r] = Ret(r)]
    /\ UNCHANGED <<args, allWg, gorWg, gi, gw, startChan, defers, fatal, events, ran>>
    /\ UNCHANGED <<webVars, timeVars>>

\* runGoroutineWorkload begins: var wg sync.WaitGroup; startChan := make(chan struct{}).
RunGoroutines(r) ==
    /\ Alive
    /\ pos[r] = "runGoroutines"
    /\ pos' = [pos EXCEPT ![r] = "gorLoop"]
    /\ gorWg' = 0
    /\ gi' = 0
    /\ startChan' = "open"
    /\ ran' = ran \cup {"goroutines"}
    /\ UNCHANGED <<args, allWg, gw, defers, fatal, events>>
    /\ UNCHANGED <<webVars, timeVars>>

\* for i := 0; i < *goroutines; i++ { wg.Add(1); go func(id int) {...}(i) }
GorSpawn(r) ==
    /\ Alive
    /\ pos[r] = "gorLoop"
    /\ IF gi < args.goroutines
          THEN /\ gorWg' = gorWg + 1
               /\ gw' = [gw EXCEPT ![gi + 1] = "recv"]
               /\ gi' = gi + 1
               /\ pos' = pos
          ELSE /\ pos' = [pos EXCEPT ![r] = "gorClose"]
               /\ UNCHANGED <<gorWg, gw, gi>>
    /\ UNCHANGED <<args, allWg, startChan, defers, fatal, events, ran>>
    /\ UNCHANGED <<webVars, timeVars>>

\* close(startChan)
GorClose(r) ==
    /\ Alive
    /\ pos[r] = "gorClose"
    /\ startChan' = "closed"
    /\ pos' = [pos EXCEPT ![r] = "gorWait"]
    /\ UNCHANGED <<args, allWg, gorWg, gi, gw, defers, fatal, events, ran>>
    /\ UNCHANGED <<webVars, timeVars>>

\* wg.Wait() returns; "All goroutines completed"; the function returns.
GorWait(r) ==
    /\ Alive
    /\ pos[r] = "gorWait"
    /\ gorWg = 0
    /\ pos' = [pos EXCEPT ![r] = Ret(r)]
    /\ UNCHANGED <<args, allWg, gorWg, gi, gw, startChan, defers, fatal, events, ran>>
    /\ UNCHANGED <<webVars, timeVars>>

\* A goroutine k that does not wait for startChan.
GwStartEarly(k) ==
    /\ Alive
    /\ gw[k] = "recv"
    /\ gw' = [gw EXCEPT ![k] = "work"]
    /\ UNCHANGED <<pos, args, allWg, gorWg, gi, startChan, defers, fatal, events, ran>>
    /\ UNCHANGED <<webVars, timeVars>>

\* <-startChan returns in goroutine k: the channel is closed.
GwStart(k) ==
    /\ Alive
    /\ gw[k] = "recv"
    /\ startChan = "closed"
    /\ gw' = [gw EXCEPT ![k] = "work"]
    /\ UNCHANGED <<pos, args, allWg, gorWg, gi, startChan, defers, fatal, events, ran>>
    /\ UNCHANGED <<webVars, timeVars>>

\* Goroutine k: endTime has passed, the loop ends, the deferred wg.Done() runs.
GwDone(k) ==
    /\ Alive
    /\ gw[k] = "work"
    /\ gw' = [gw EXCEPT ![k] = "done"]
    /\ gorWg' = gorWg - 1
    /\ UNCHANGED <<pos, args, allWg, gi, startChan, defers, fatal, events, ran>>
    /\ UNCHANGED <<webVars, timeVars>>

\* runAllWorkloads: wg.Add(1); go func() { defer wg.Done(); run() }() for the
\* goroutine g, which starts at `start`; main goes on from `from` to `to`.
AllGo(from, to, g, start) ==
    /\ pos["main"] = from
    /\ allWg' = allWg + 1
    /\ pos' = [pos EXCEPT !["main"] = to, ![g] = start]
    /\ UNCHANGED <<args, gorWg, gi, gw, startChan, defers, fatal, events, ran>>
    /\ UNCHANGED <<webVars, timeVars>>

AllGoCPU == AllGo("runAll", "allMemory", "cpu", "runCPU")

AllGoMemory == AllGo("allMemory", "allGoroutines", "memory", "runMemory")

AllGoGoroutines == AllGo("allGoroutines", "allWait", "goroutines", "runGoroutines")

\* A goroutine of runAllWorkloads that ends without wg.Done().
AllDoneForgotten(g) ==
    /\ Alive
    /\ pos[g] = "wgDone"
    /\ pos' = [pos EXCEPT ![g] = "exited"]
    /\ UNCHANGED <<args, allWg, gorWg, gi, gw, startChan, defers, fatal, events, ran>>
    /\ UNCHANGED <<webVars, timeVars>>

\* The deferred wg.Done() of the goroutine g of runAllWorkloads; g ends.
AllDone(g) ==
    /\ Alive
    /\ pos[g] = "wgDone"
    /\ allWg' = allWg - 1
    /\ pos' = [pos EXCEPT ![g] = "exited"]
    /\ UNCHANGED <<args, gorWg, gi, gw, startChan, defers, fatal, events, ran>>
    /\ UNCHANGED <<webVars, timeVars>>

\* runAllWorkloads: wg.Wait() returns and so does the function.
AllWait ==
    /\ pos["main"] = "allWait"
    /\ allWg = 0
    /\ pos' = [pos EXCEPT !["main"] = Ret("main")]
    /\ UNCHANGED <<args, allWg, gorWg, gi, gw, startChan, defers, fatal, events, ran>>
    /\ UNCHANGED <<webVars, timeVars>>

\* "Workload completed in ..."
WorkloadCompleted ==
    /\ pos["main"] = "elapsed"
    /\ events' = Append(events, "Workload completed")
    /\ pos' = [pos EXCEPT !["main"] = "memProfile"]
    /\ UNCHANGED <<args, allWg, gorWg, gi, gw, startChan, defers, fatal, ran>>
    /\ UNCHANGED <<webVars, timeVars>>

\* Write memory profile
WriteMemProfile ==
    ProfileStep("memProfile", "blockProfile", "memprofile",
                "could not create memory profile", "could not write memory profile",
                "WriteHeapProfile", <<"memClose">>)

\* Write block profile
WriteBlockProfile ==
    ProfileStep("blockProfile", "mutexProfile", "blockprofile",
                "could not create block profile", "could not write block profile",
                "blockWriteTo", <<"blockClose">>)

\* Write mutex profile
WriteMutexProfile ==
    ProfileStep("mutexProfile", "printStats", "mutexprofile",
                "could not create mutex profile", "could not write mutex profile",
                "mutexWriteTo", <<"mutexClose">>)

\* printStats()
PrintStats ==
    /\ pos["main"] = "printStats"
    /\ events' = Append(events, "printStats")
    /\ pos' = [pos EXCEPT !["main"] = "return"]
    /\ UNCHANGED <<args, allWg, gorWg, gi, gw, startChan, defers, fatal, ran>>
    /\ UNCHANGED <<webVars, timeVars>>

\* Deferred calls run in the order in which they were deferred.
RunDeferredFIFO ==
    /\ pos["main"] = "return"
    /\ defers # <<>>
    /\ events' = Append(events, defers[Len(defers)])
    /\ defers' = SubSeq(defers, 1, Len(defers) - 1)
    /\ UNCHANGED <<pos, args, allWg, gorWg, gi, gw, startChan, fatal, ran>>
    /\ UNCHANGED <<webVars, timeVars>>

\* main returns: the deferred call deferred last runs.
RunDeferred ==
    /\ pos["main"] = "return"
    /\ defers # <<>>
    /\ events' = Append(events, Head(defers))
    /\ defers' = Tail(defers)
    /\ UNCHANGED <<pos, args, allWg, gorWg, gi, gw, startChan, fatal, ran>>
    /\ UNCHANGED <<webVars, timeVars>>

\* main has run its deferred calls: the process ends.
MainReturn ==
    /\ pos["main"] = "return"
    /\ defers = <<>>
    /\ pos' = [pos EXCEPT !["main"] = "exited"]
    /\ UNCHANGED <<args, allWg, gorWg, gi, gw, startChan, defers, fatal, events, ran>>
    /\ UNCHANGED <<webVars, timeVars>>

\* One step of main outside the workloads.
MainStep ==
    \/ ParseFlags
    \/ SetupCPUProfile
    \/ SetupTrace
    \/ Dispatch
    \/ AllGoCPU
    \/ AllGoMemory
    \/ AllGoGoroutines
    \/ AllWait
    \/ WorkloadCompleted
    \/ WriteMemProfile
    \/ WriteBlockProfile
    \/ WriteMutexProfile
    \/ PrintStats
    \/ RunDeferred
    \/ MainReturn

\* One step of goroutine r inside a workload.
WorkloadStep(r) ==
    \/ RunCPU(r)
    \/ CPUDone(r)
    \/ RunMemory(r)
    \/ MemoryDone(r)
    \/ RunGoroutines(r)
    \/ GorSpawn(r)
    \/ GorClose(r)
    \/ GorWait(r)

\* One step of goroutine k of runGoroutineWorkload.
GwStep(k) ==
    \/ GwStart(k)
    \/ GwDone(k)

NextCLI ==
    \/ MainStep
    \/ \E r \in CLIProcs : WorkloadStep(r)
    \/ \E g \in AllProcs : AllDone(g)
    \/ \E k \in 1 .. MaxGoroutines : GwStep(k)

SpecCLI == Init /\ [][NextCLI]_vars

\* Every goroutine that can run is run; a loop that runs until its end time
\* and a sleep end, as time passes.
FairnessCLI ==
    /\ WF_vars(MainStep)
    /\ \A r \in CLIProcs : WF_vars(WorkloadStep(r))
    /\ \A g \in AllProcs : WF_vars(AllDone(g))
    /\ \A k \in 1 .. MaxGoroutines : WF_vars(GwStep(k))

SpecCLIFair == Init /\ [][NextCLI]_vars /\ FairnessCLI

----
(***************************************************************************)
(* DoneAfter: ch := make(chan string, 1); a goroutine sleeps two seconds   *)
(* and sends "done" on ch; the caller selects between a receive from ch    *)
(* and a receive from time.After(1 * time.Second).                         *)
(*                                                                         *)
(* Time passes in ticks.  A sleep and a timer last at least their time: a  *)
(* tick takes one from what is left of each, and a goroutine that can run  *)
(* or a timer that is due may be served any time later.  Ticks after which *)
(* nothing is left to wait for change nothing and are left out.            *)
(***************************************************************************)

\* time.Sleep(2 * time.Second), in seconds.
SleepFor == 2

\* A deadline that lies after the end of the sleep.
TimeoutAfterSleep == SleepFor + 1

\* time.After(1 * time.Second), in seconds.
TimeoutAfter == 1

\* The capacity of a channel made without a buffer: make(chan string).
ChanUnbuffered == Len(<<>>)

\* cap(ch)
ChanCap == 1

\* ch := make(chan string, 1) and the go statement.
DoneAfterGo ==
    /\ dpc = "start"
    /\ ch' = <<>>
    /\ dworker' = "spawned"
    /\ dpc' = "after"
    /\ UNCHANGED <<sleepLeft, timerLeft, timerC, done, lag, printed>>
    /\ UNCHANGED <<webVars, cliVars>>

\* The select evaluates its channels: time.After(1 * time.Second) starts the
\* timer.
TimeAfter ==
    /\ dpc = "after"
    /\ timerLeft' = TimeoutAfter * TicksPerSecond
    /\ dpc' = "select"
    /\ UNCHANGED <<dworker, ch, sleepLeft, timerC, done, lag, printed>>
    /\ UNCHANGED <<webVars, cliVars>>

\* The select looks at its cases: it takes one that is ready, either when
\* both are, and waits when none is.
SelectEnter ==
    /\ dpc = "select"
    /\ \/ /\ ch # <<>>
          /\ done' = Head(ch)
          /\ ch' = Tail(ch)
          /\ dpc' = "gotDone"
          /\ UNCHANGED timerC
       \/ /\ timerC
          /\ timerC' = FALSE
          /\ dpc' = "gotTimeout"
          /\ UNCHANGED <<ch, done>>
       \/ /\ ch = <<>>
          /\ ~timerC
          /\ dpc' = "wait"
          /\ UNCHANGED <<ch, done, timerC>>
    /\ UNCHANGED <<dworker, sleepLeft, timerLeft, lag, printed>>
    /\ UNCHANGED <<webVars, cliVars>>

\* The timer fires: the time is sent on the channel of time.After, to the
\* select if the caller waits in it, which becomes runnable with the timeout
\* case.
TimerFire ==
    /\ timerLeft = 0
    /\ timerLeft' = -1
    /\ IF dpc = "wait"
          THEN /\ dpc' = "gotTimeout"
               /\ UNCHANGED timerC
          ELSE /\ timerC' = TRUE
               /\ UNCHANGED dpc
    /\ UNCHANGED <<dworker, ch, sleepLeft, done, lag, printed>>
    /\ UNCHANGED <<webVars, cliVars>>

\* case done := <-ch: fmt.Println(">" + done + "<"), and DoneAfter returns.
SelectDone ==
    /\ dpc = "gotDone"
    /\ printed' = Append(printed, ">" \o done \o "<")
    /\ dpc' = "returned"
    /\ UNCHANGED <<dworker, ch, sleepLeft, timerLeft, timerC, done, lag>>
    /\ UNCHANGED <<webVars, cliVars>>

\* case <-time.After(...): fmt.Println("timeout"), and DoneAfter returns.
SelectTimeout ==
    /\ dpc = "gotTimeout"
    /\ printed' = Append(printed, "timeout")
    /\ dpc' = "returned"
    /\ UNCHANGED <<dworker, ch, sleepLeft, timerLeft, timerC, done, lag>>
    /\ UNCHANGED <<webVars, cliVars>>

\* The goroutine starts: time.Sleep(2 * time.Second).
WorkerSleep ==
    /\ dworker = "spawned"
    /\ sleepLeft' = SleepFor * TicksPerSecond
    /\ dworker' = "sleeping"
    /\ UNCHANGED <<dpc, ch, timerLeft, timerC, done, lag, printed>>
    /\ UNCHANGED <<webVars, cliVars>>

\* The sleep is over: ch <- "done", handed to the select if the caller waits
\* in it, which becomes runnable with that case, or else put in the buffer
\* if it has room.
WorkerSend ==
    /\ dworker = "sleeping"
    /\ sleepLeft = 0
    /\ IF dpc = "wait"
          THEN /\ done' = "done"
               /\ dpc' = "gotDone"
               /\ UNCHANGED ch
          ELSE /\ Len(ch) < ChanCap
               /\ ch' = Append(ch, "done")
               /\ UNCHANGED <<done, dpc>>
    /\ sleepLeft' = -1
    /\ dworker' = "sent"
    /\ UNCHANGED <<timerLeft, timerC, lag, printed>>
    /\ UNCHANGED <<webVars, cliVars>>

\* The function of the goroutine returns.
WorkerEnd ==
    /\ dworker = "sent"
    /\ dworker' = "finished"
    /\ UNCHANGED <<dpc, ch, sleepLeft, timerLeft, timerC, done, lag, printed>>
    /\ UNCHANGED <<webVars, cliVars>>

\* The caller can run, or the timer is due and has not fired.
Late == dpc \in {"after", "select", "gotDone", "gotTimeout"} \/ timerLeft = 0

\* What is left of a time of t ticks one tick later.
OneLess(t) == IF t > 0 THEN t - 1 ELSE t

\* A tick of the clock passes while a sleep or a timer runs.
Advance ==
    /\ sleepLeft > 0 \/ timerLeft > 0
    /\ sleepLeft' = OneLess(sleepLeft)
    /\ timerLeft' = OneLess(timerLeft)
    /\ lag' = IF Late THEN lag + 1 ELSE lag
    /\ UNCHANGED <<dpc, dworker, ch, timerC, done, printed>>
    /\ UNCHANGED <<webVars, cliVars>>

NextTime ==
    \/ DoneAfterGo
    \/ TimeAfter
    \/ SelectEnter
    \/ TimerFire
    \/ SelectDone
    \/ SelectTimeout
    \/ WorkerSleep
    \/ WorkerSend
    \/ WorkerEnd
    \/ Advance

\* Time passes and the goroutines run.
SpecTime == Init /\ [][NextTime]_vars /\ WF_vars(NextTime)

\* DoneAfter returns in this step.
C20_Returns == dpc # "returned" /\ dpc' = "returned"

\* C20: the select of DoneAfter takes the timeout case whenever the caller
\* and the timer are served with less than a second of delay in all: then
\* DoneAfter prints "timeout" and nothing else and returns while the
\* goroutine has not sent and ch is empty, so without waiting for it.  In
\* every run it prints one line, "timeout" or ">done<", the second only
\* after the send, and returns.
C20_Return ==
    C20_Returns =>
        /\ Len(printed') = 1
        /\ printed'[1] \in {"timeout", ">done<"}
        /\ printed'[1] = ">done<" => dworker' \in {"sent", "finished"}
        /\ lag' < TimeoutAfter * TicksPerSecond =>
              /\ printed' = <<"timeout">>
              /\ dworker' \in {"spawned", "sleeping"}
              /\ ch' = <<>>

C20_TimesOutWhenServedInTime ==
    /\ [](printed # <<>> => dpc = "returned")
    /\ [][C20_Return]_vars
    /\ <>(dpc = "returned")

\* DoneAfter has returned on the timeout, served without delay, one second
\* before the sleep ends.
C20_Witness ==
    /\ dpc = "returned"
    /\ printed = <<"timeout">>
    /\ lag = 0
    /\ dworker = "sleeping"
    /\ sleepLeft = (SleepFor - TimeoutAfter) * TicksPerSecond

\* C20 as stated: the select always takes the timeout case and ">done<" is
\* never printed.
C20_DoneAfterTimesOut == \A n \in 1 .. Len(printed) : printed[n] = "timeout"

\* C28: the goroutine of DoneAfter does not leak.  Its send never waits: ch
\* has room for one value and nothing else is ever sent on it, so when the
\* sleep is over the buffer is empty, and with the caller gone on the
\* timeout, nothing left to receive, the send puts "done" in the buffer and
\* the goroutine ends, in every run.
C28_Send ==
    (dworker = "sleeping" /\ dworker' = "sent") =>
        /\ ch = <<>>
        /\ dpc = "wait" => (dpc' = "gotDone" /\ done' = "done" /\ ch' = <<>>)
        /\ dpc # "wait" =>
              /\ dpc' = dpc
              /\ ch' = <<"done">>
              /\ Len(ch') <= ChanCap

C28_WorkerDoesNotLeak ==
    /\ []((dworker = "sleeping" /\ sleepLeft = 0) =>
             (dpc = "wait" \/ Len(ch) < ChanCap))
    /\ []((dpc = "returned" /\ printed = <<"timeout">> /\ dworker \in {"spawned", "sleeping"}) =>
             Len(ch) < ChanCap)
    /\ [][C28_Send]_vars
    /\ <>[](dworker = "finished")

\* The goroutine has ended after the caller returned on the timeout, and
\* its "done" stays in the buffer of ch.
C28_Witness ==
    /\ dworker = "finished"
    /\ dpc = "returned"
    /\ printed = <<"timeout">>
    /\ ch = <<"done">>
    /\ lag = 0

----
(***************************************************************************)
(* The handlers of the web application that count their request, with      *)
(* requestCount++ as the read and the write it is, beside the two that do  *)
(* not count: homeHandler and statsHandler.  computeHandler calls          *)
(* fibonacciCompute and allocateHandler fills its chunks before they call  *)
(* incrementCounter().                                                     *)
(***************************************************************************)

\* The handlers serving a request that is counted and is not yet.
InCounted ==
    {p \in Handlers : pc[p] \in {"loop", "lock", "enter", "store", "unlock", "leakLoop",
                                 "compute", "allocate",
                                 "incLock", "incAdd", "incStore", "incUnlock"}}

\* A request that does its work in one step arrives at handler p, which goes
\* to the position `at`.
StartPlain(p, at) ==
    /\ pc[p] = "idle"
    /\ requestCount + Cardinality(InCounted) < MaxRequests
    /\ pc' = [pc EXCEPT ![p] = at]
    /\ UNCHANGED <<userCache, cacheMu, requestCount, countMu, count, i, user, key, res, wpc>>
    /\ UNCHANGED hist
    /\ UNCHANGED elsewhere

\* The work of handler p at the position `at` is done; it goes on at `to`.
PlainDone(p, at, to) ==
    /\ pc[p] = at
    /\ pc' = [pc EXCEPT ![p] = to]
    /\ UNCHANGED <<userCache, cacheMu, requestCount, countMu, count, i, user, key, res, wpc>>
    /\ UNCHANGED hist
    /\ UNCHANGED elsewhere

\* A GET /api/compute request arrives.
StartCompute(p) == StartPlain(p, "compute")

\* result := fibonacciCompute(iterations); then incrementCounter().
ComputeRun(p) == PlainDone(p, "compute", "incLock")

\* A GET /api/allocate request arrives.
StartAllocate(p) == StartPlain(p, "allocate")

\* The chunks are allocated and filled; then incrementCounter().
AllocateRun(p) == PlainDone(p, "allocate", "incLock")

\* A GET / request arrives.
StartHome(p) ==
    /\ pc[p] = "idle"
    /\ pc' = [pc EXCEPT ![p] = "home"]
    /\ UNCHANGED <<userCache, cacheMu, requestCount, countMu, count, i, user, key, res, wpc>>
    /\ UNCHANGED hist
    /\ UNCHANGED elsewhere

\* homeHandler writes the page and returns.
HomeWrite(p) == PlainDone(p, "home", "idle")

\* The counts of the /api/users and /api/leak requests served here.
CountedCounts == {0, 1}

\* One step of the handler goroutine p, whatever request it serves.
CountedStep(p) ==
    \/ \E c \in CountedCounts : StartUsers(p, c)
    \/ LoopUsers(p)
    \/ LockUsers(p)
    \/ EnterUsers(p)
    \/ StoreUsers(p)
    \/ UnlockUsers(p)
    \/ StartCompute(p)
    \/ ComputeRun(p)
    \/ StartAllocate(p)
    \/ AllocateRun(p)
    \/ \E c \in CountedCounts : StartLeak(p, c)
    \/ LeakLoop(p)
    \/ StartHome(p)
    \/ HomeWrite(p)
    \/ StartStats(p)
    \/ StatsRLock(p)
    \/ StatsRead(p)
    \/ StatsRUnlock(p)
    \/ StatsCLock(p)
    \/ StatsCRead(p)
    \/ StatsCUnlock(p)
    \/ IncLock(p)
    \/ IncLoad(p)
    \/ IncStore(p)
    \/ IncUnlock(p)

\* SpecCount: requests of every kind served concurrently.
NextCount ==
    \/ \E p \in Handlers : CountedStep(p)
    \/ LeakPark

SpecCount == Init /\ [][NextCount]_vars

\* The handlers that have added one to requestCount and not yet returned
\* from incrementCounter.
Returning == {p \in Handlers : pc[p] = "incUnlock"}

\* C27: requestCount changes only by the requestCount++ of a handler that
\* holds countMu, and then by exactly one: it never decreases and no update
\* is lost.  It is the number of calls of incrementCounter performed, those
\* returned and those about to; the handlers of / and /api/stats call none.
C27_Step ==
    /\ requestCount' # requestCount =>
          /\ requestCount' = requestCount + 1
          /\ \E p \in Handlers :
                /\ countMu = p
                /\ pc[p] = "incStore"
                /\ pc'[p] = "incUnlock"
    /\ \A p \in Handlers :
          (pc[p] \in {"home", "statsRLock", "statsRead", "statsRUnlock",
                      "statsCLock", "statsCRead", "statsCUnlock"}
           /\ pc'[p] # pc[p]) =>
              (requestCount' = requestCount /\ incCalls' = incCalls)
    /\ incCalls' # incCalls =>
          \E p \in Handlers : pc[p] = "incUnlock" /\ pc'[p] = "idle"

C27_CounterLosesNoUpdate ==
    /\ [][C27_Step]_vars
    /\ [](requestCount = incCalls + Cardinality(Returning))
    /\ [](Cardinality({p \in Handlers : pc[p] \in {"incAdd", "incStore", "incUnlock"}}) <= 1)

\* A /api/compute request has been counted while a /api/leak request waits
\* for countMu, which a /api/stats request holds to read the counter.
C27_Witness ==
    /\ requestCount = 1
    /\ incCalls = 1
    /\ \E p, q \in Handlers :
          /\ pc[p] = "incLock"
          /\ spawned = 1
          /\ pc[q] = "statsCUnlock"
          /\ countMu = q
          /\ res[q].count = 1

----
(***************************************************************************)
(* Properties of the cache.  The positions at which an operation has done  *)
(* its work and still holds the lock are "unlock" (a Put, a tick),         *)
(* "statsRUnlock" (Size) and "getRUnlock" (Get).                           *)
(***************************************************************************)

\* The number of entries of the map m.
Size(m) == Cardinality(DOMAIN m)

\* C1: a Get(id) that follows a Put(id, r), with no later Put to id and no tick
\* in between, returns found with the record r.
C1_GetReturnsLastPut ==
    \A p \in Handlers :
        (pc[p] = "getRUnlock" /\ lastPut[key[p]] # NilUser)
            => (res[p].found /\ res[p].user = lastPut[key[p]])

\* Witness of C1: after MaxRequests requests have stored users, a Get has
\* returned the record of the last Put to its id.
C1_Witness ==
    \E p \in Handlers :
        /\ pc[p] = "getRUnlock"
        /\ lastPut[key[p]] # NilUser
        /\ res[p].found
        /\ res[p].user.Score = 1
        /\ requestCount = MaxRequests

\* C2: from the empty cache, while no tick has run, Size() returns the number
\* of distinct ids stored.
C2_SizeCountsDistinctPuts ==
    \A p \in Handlers :
        (pc[p] = "statsRUnlock" /\ ~ticked) => res[p].size = Cardinality(inserted)

\* Witness of C2: Size() has read the size after MaxCount distinct ids were
\* stored and no tick has run.
C2_Witness ==
    \E p \in Handlers :
        /\ pc[p] = "statsRUnlock"
        /\ ~ticked
        /\ inserted = 1 .. MaxCount
        /\ res[p].size = MaxCount

\* C3: a tick that finds more than Threshold entries leaves exactly one entry
\* fewer than it found.
C3_TickAboveThresholdRemovesOne ==
    (wpc = "unlock" /\ Size(before) > Threshold)
        => Size(userCache) = Size(before) - 1

\* Witness of C3: the body of a tick has run on a map of Threshold + 2 entries.
C3_Witness ==
    /\ wpc = "unlock"
    /\ Size(before) = Threshold + 2
    /\ Size(userCache) = Threshold + 1

\* C4: a tick that finds at most Threshold entries leaves the map as it found it.
C4_TickAtOrBelowThresholdKeepsMap ==
    (wpc = "unlock" /\ Size(before) <= Threshold) => userCache = before

\* Witness of C4: the body of a tick has run on a map of exactly Threshold entries.
C4_Witness ==
    /\ wpc = "unlock"
    /\ Size(before) = Threshold
    /\ userCache = before

\* C6: with the ids 1 .. Threshold + 1 stored into the empty cache (1, 2, 3, 4
\* for the threshold 3) the size read is Threshold + 1, and one tick on that
\* map leaves Threshold entries: exactly one of those ids is absent and the
\* others are present.
C6_ScenarioOneOverThreshold ==
    /\ \A p \in Handlers :
          (pc[p] = "statsRUnlock" /\ ~removed /\ inserted = 1 .. (Threshold + 1))
              => res[p].size = Threshold + 1
    /\ (wpc = "unlock" /\ DOMAIN before = 1 .. (Threshold + 1))
          => /\ Size(userCache) = Threshold
             /\ DOMAIN userCache \subseteq 1 .. (Threshold + 1)
             /\ Cardinality((1 .. (Threshold + 1)) \ DOMAIN userCache) = 1

\* Witness of C6: threshold 3, the first tick to delete has run on the map of
\* the ids 1, 2, 3, 4 and left three of them.
C6_Witness ==
    /\ Threshold = 3
    /\ wpc = "unlock"
    /\ DOMAIN before = {1, 2, 3, 4}
    /\ inserted = {1, 2, 3, 4}
    /\ Cardinality(gone) = 1
    /\ Size(userCache) = 3

\* C8: a Put to an id that is present keeps the size and leaves its record at
\* the id; a Put to an absent id adds one entry; every other entry is kept.
C8_PutOverwritesOrAdds ==
    \A p \in Handlers :
        pc[p] = "unlock"
            => /\ user[p].ID \in DOMAIN userCache
               /\ userCache[user[p].ID] = user[p]
               /\ user[p].ID \in DOMAIN before => Size(userCache) = Size(before)
               /\ user[p].ID \notin DOMAIN before => Size(userCache) = Size(before) + 1

\* Witness of C8: a Put has replaced a different record at an id that was present.
C8_Witness ==
    \E p \in Handlers :
        /\ pc[p] = "unlock"
        /\ user[p].ID \in DOMAIN before
        /\ before[user[p].ID] # user[p]
        /\ userCache[user[p].ID] = user[p]

\* C9, the result: Get(id) finds exactly the ids that are present, with the
\* record stored there; an id never stored, or deleted and not stored again, is
\* not found.
C9_GetResult ==
    \A p \in Handlers :
        pc[p] = "getRUnlock"
            => /\ key[p] \in DOMAIN userCache
                    => (res[p].found /\ res[p].user = userCache[key[p]])
               /\ key[p] \notin DOMAIN userCache => ~res[p].found
               /\ key[p] \notin inserted => ~res[p].found
               /\ key[p] \in gone => ~res[p].found

\* C9, the frame: no step of a Get changes the map.
C9_GetFrame ==
    \A p \in Handlers :
        (pc[p] \in {"getRLock", "getRead", "getRUnlock"} /\ pc'[p] # pc[p])
            => userCache' = userCache

\* C9: Get is total, reports absence as not-found and never changes the map.
C9_GetTotalAndPure == []C9_GetResult /\ [][C9_GetFrame]_vars

\* Witness of C9: a Get has reported not-found for an id that was stored and
\* then deleted by a tick.
C9_Witness ==
    \E p \in Handlers :
        /\ pc[p] = "getRUnlock"
        /\ key[p] \in gone
        /\ ~res[p].found

\* C10: the threshold is a soft bound: a tick that finds Threshold + 2 entries
\* or more leaves more than Threshold entries.
C10_SizeAboveThresholdAfterTick ==
    (wpc = "unlock" /\ Size(before) >= Threshold + 2) => Size(userCache) > Threshold

\* Witness of C10: a tick has deleted an entry and the map is still larger
\* than the threshold.
C10_Witness ==
    /\ wpc = "unlock"
    /\ userCache # before
    /\ Size(userCache) > Threshold

\* C14: when the body of a tick finds more than Threshold entries, each id
\* present can be the one it deletes.
C14_AnyPresentIdCanBeEvicted ==
    (wpc = "check" /\ Size(userCache) > Threshold)
        => \A id \in DOMAIN userCache :
              ENABLED (WorkerCheck /\ id \notin DOMAIN userCache')

\* Witness of C14: of the ids 1 .. Threshold + 1 a tick has deleted the last
\* one stored.
C14_Witness ==
    /\ wpc = "unlock"
    /\ DOMAIN before = 1 .. (Threshold + 1)
    /\ DOMAIN userCache = 1 .. Threshold

\* C15, one step: the entry at an id appears, disappears or changes only in
\* the store of a Put to that id or in a tick that deletes that id.
C15_Frame ==
    \A id \in Ids :
        LET was == id \in DOMAIN userCache
            is  == id \in DOMAIN userCache'
            changed == IF was /\ is THEN userCache'[id] # userCache[id]
                                    ELSE was # is
        IN  changed =>
              \/ \E p \in Handlers :
                    pc[p] = "store" /\ pc'[p] = "unlock" /\ user[p].ID = id
              \/ wpc = "check" /\ wpc' = "unlock" /\ was /\ ~is

\* C15: a stored record changes only through a Put to its id or its eviction.
C15_RecordsImmutable == [][C15_Frame]_vars

\* Witness of C15: a tick has deleted one entry and another entry is as it was.
C15_Witness ==
    /\ wpc = "unlock"
    /\ Size(userCache) < Size(before)
    /\ \E id \in DOMAIN userCache : userCache[id] = before[id]

\* C22: a tick that removes an entry removes one key that was present when
\* the tick took the lock and touches nothing else: the keys after it are the
\* keys before less exactly one, and every id left has the record it had.
C22_EvictionFrame ==
    (wpc = "unlock" /\ userCache # before) =>
        \E id \in DOMAIN before :
            /\ DOMAIN userCache = (DOMAIN before) \ {id}
            /\ \A k \in DOMAIN userCache : userCache[k] = before[k]

\* A tick has removed one of Threshold + 2 entries and left a user of score 1.
C22_Witness ==
    /\ wpc = "unlock"
    /\ Cardinality(DOMAIN before) = Threshold + 2
    /\ Cardinality(DOMAIN userCache) = Threshold + 1
    /\ \E k \in DOMAIN userCache : userCache[k].Score = 1

----
(***************************************************************************)
(* Properties of the concurrent handlers.                                  *)
(***************************************************************************)

\* The handlers between the call of Lock and the return of Unlock of a Put.
InPut == {p \in Handlers : pc[p] \in {"lock", "enter", "store", "unlock"}}

\* The goroutines inside a writer's critical section.
WritersInside ==
    {p \in Handlers : pc[p] \in {"store", "unlock"}}
        \cup (IF wpc \in {"check", "unlock"} THEN {"worker"} ELSE {})

\* The handlers inside a reader's critical section.
ReadersInside ==
    {p \in Handlers : pc[p] \in {"statsRead", "statsRUnlock", "getRead", "getRUnlock"}}

\* C5: when no Put is in progress and no tick has deleted an entry, every id
\* stored by the concurrent requests is present and the size is the number of
\* distinct ids stored.
C5_ConcurrentPutsLoseNothing ==
    (InPut = {} /\ ~removed)
        => (DOMAIN userCache = inserted /\ Size(userCache) = Cardinality(inserted))

\* Witness of C5: two requests are in progress at once, one has stored id 1
\* and id 2, the other id 1, and no Put is in progress.
C5_Witness ==
    /\ InPut = {}
    /\ ~removed
    /\ \A p \in Handlers : pc[p] = "loop"
    /\ \E p, q \in Handlers : p # q /\ i[p] = 2 /\ i[q] = 1 /\ count[q] = 2
    /\ inserted = {1, 2}

\* C7: at most one writer is inside; no reader is inside with a writer; and a
\* goroutine inside holds the lock in its mode.
C7_MutualExclusion ==
    /\ Cardinality(WritersInside) <= 1
    /\ WritersInside # {} => ReadersInside = {}
    /\ \A w \in WritersInside : cacheMu.w = w
    /\ ReadersInside \subseteq cacheMu.readers

\* Witness of C7: two readers are inside at once while a writer waits for them.
C7_Witness ==
    /\ Cardinality(ReadersInside) = 2
    /\ cacheMu.w # Nobody

\* C24: every entry of the cache is stored under the ID of its record and
\* the keys are positive integers: a request with count n builds, in its
\* iteration i, the user with ID i + 1, from 1 to n, and stores it at that ID.
C24_KeyIsRecordID ==
    /\ \A k \in DOMAIN userCache : userCache[k].ID = k /\ k \in Nat /\ k >= 1
    /\ \A p \in Handlers :
          pc[p] \in {"lock", "enter", "store", "unlock"} =>
              /\ user[p].ID = i[p] + 1
              /\ user[p].ID \in 1 .. count[p]
    /\ \A p \in Handlers :
          (pc[p] = "incLock" /\ count[p] > 0) =>
              /\ i[p] = count[p]
              /\ (1 .. count[p]) \subseteq inserted

\* Two requests for two users are in progress: the map holds ids 1 and 2, one
\* handler has just stored its last user and the other its first.
C24_Witness ==
    /\ DOMAIN userCache = {1, 2}
    /\ \E p, q \in Handlers :
          /\ pc[p] = "unlock" /\ user[p].ID = 2 /\ count[p] = 2
          /\ pc[q] = "lock" /\ user[q].ID = 2 /\ userCache[1] = lastLock[1]
          /\ userCache[2] = user[p]

\* C11: per id, the record stored is the one of the Put that took the
\* exclusive lock last, whenever no Put to the id is between taking the lock
\* and storing: never an earlier Put's record, never a mixture.
C11_LastWriteWins ==
    \A id \in DOMAIN userCache :
        (\A p \in Handlers : ~(pc[p] = "store" /\ user[p].ID = id))
            => userCache[id] = lastLock[id]

\* Witness of C11: a Put has replaced the different record another request,
\* still in progress, stored at the same id.
C11_Witness ==
    \E p, q \in Handlers :
        /\ p # q
        /\ pc[p] = "unlock"
        /\ user[p].ID \in DOMAIN before
        /\ before[user[p].ID] # user[p]
        /\ userCache[user[p].ID] = user[p]
        /\ pc[q] \in {"loop", "lock"}
        /\ i[q] >= user[p].ID

\* C16, the reason: between two Puts of its request a handler holds cacheMu
\* in no mode, so a Size read or a tick can take the lock there.
C16_NoLockBetweenPuts ==
    \A p \in Handlers :
        pc[p] \in {"loop", "lock", "incLock", "incAdd", "incUnlock"}
            => (cacheMu.w # p /\ p \notin cacheMu.readers)

\* Witness of C16: a request for two users has stored id 1 only; a tick has
\* run since that Put and a Size read has returned 1.
C16_Witness ==
    \E p, q \in Handlers :
        /\ p # q
        /\ count[p] = 2 /\ i[p] = 1 /\ pc[p] \in {"loop", "lock"}
        /\ inserted = {1}
        /\ ticked /\ lastPut[1] = NilUser
        /\ pc[q] = "statsRUnlock" /\ res[q].size = 1

----
(***************************************************************************)
(* Properties of the CLI application.                                      *)
(***************************************************************************)

\* The CLI has done e.
Happened(e) == \E n \in 1 .. Len(events) : events[n] = e

\* C18: the -workload flag selects one of cpu, memory, goroutines and all,
\* all when the flag is absent, and only the workload selected runs: once
\* main is past the switch the workloads begun are the one selected, or, for
\* all, the three.  With any other value no workload is ever begun: the
\* switch ends the process with the fatal error "Unknown workload", and the
\* memory, block and mutex profiles and the statistics are never written.
C18_WorkloadDispatch ==
    /\ (args.given = Absent /\ pos["main"] # "parse") => args.workload = "all"
    /\ args.workload \in {"cpu", "memory", "goroutines"} =>
          /\ ran \subseteq {args.workload}
          /\ Happened("Workload completed") => ran = {args.workload}
    /\ args.workload = "all" =>
          (Happened("Workload completed") => ran = {"cpu", "memory", "goroutines"})
    /\ args.workload \notin {"cpu", "memory", "goroutines", "all", ""} =>
          /\ ran = {}
          /\ \A g \in AllProcs : pos[g] = "none"
          /\ ~Happened("Workload completed")
          /\ ~Happened("WriteHeapProfile")
          /\ ~Happened("blockWriteTo")
          /\ ~Happened("mutexWriteTo")
          /\ ~Happened("printStats")
          /\ Happened("Starting workload") =>
                (pos["main"] = "exited" /\ fatal = "Unknown workload")

\* The process has ended at the switch on an unknown workload, with every
\* profile asked for.
C18_Witness ==
    /\ args.workload = "bogus"
    /\ args.profiles = Profiles
    /\ pos["main"] = "exited"
    /\ fatal = "Unknown workload"
    /\ Happened("traceStart")

\* C19: runAllWorkloads runs the three workloads in goroutines of their own
\* and returns only when all three have completed: at its return each of its
\* goroutines has run its workload and called Done, and the counter of the
\* WaitGroup, which is never negative, is back at zero; and it does return,
\* the workloads ending as they do.
C19_RunAllWorkloadsJoins ==
    /\ [](allWg \in 0 .. 3)
    /\ []((args.workload = "all" /\ pos["main"] = "elapsed") =>
             /\ ran = {"cpu", "memory", "goroutines"}
             /\ \A g \in AllProcs : pos[g] = "exited"
             /\ \A k \in 1 .. MaxGoroutines : gw[k] \in {"none", "done"}
             /\ allWg = 0)
    /\ (pos["main"] = "runAll") ~> (pos["main"] = "elapsed")

\* The three workloads are in progress at once while main waits for them.
C19_Witness ==
    /\ pos["main"] = "allWait"
    /\ allWg = 3
    /\ pos["cpu"] = "cpuLoop"
    /\ pos["memory"] = "memSleep"
    /\ pos["goroutines"] = "gorWait"
    /\ \A k \in 1 .. MaxGoroutines : gw[k] = "work"

\* The goroutines of runGoroutineWorkload created so far.
Created == {k \in 1 .. MaxGoroutines : gw[k] # "none"}

\* wg.Wait() of runGoroutineWorkload returns in this step.
C21_Joined ==
    \E r \in CLIProcs : pos[r] = "gorWait" /\ pos'[r] # "gorWait"

\* C21: in runGoroutineWorkload no goroutine begins its work before all N
\* goroutines have been created and startChan has been closed; the close
\* releases every goroutine, none stays in <-startChan; wg.Wait() returns,
\* and "All goroutines completed" is printed, only when each of the N has
\* called Done and the counter is back at zero; and the function returns,
\* for every N from 0 on.
C21_StartBarrierAndJoin ==
    /\ [](\A k \in 1 .. MaxGoroutines :
             gw[k] \in {"work", "done"} =>
                 /\ startChan = "closed"
                 /\ gi = args.goroutines
                 /\ Created = 1 .. args.goroutines)
    /\ [](gorWg = Cardinality({k \in 1 .. MaxGoroutines : gw[k] \in {"recv", "work"}}))
    /\ [][C21_Joined =>
             /\ Created = 1 .. args.goroutines
             /\ \A k \in Created : gw[k] = "done"
             /\ gorWg = 0]_vars
    /\ (startChan = "closed") ~> (\A k \in 1 .. MaxGoroutines : gw[k] \in {"none", "done"})
    /\ \A r \in CLIProcs : (pos[r] = "runGoroutines") ~> (pos[r] = Ret(r))

\* Started alone with the largest N, the function waits in wg.Wait(): the
\* first goroutine has called Done and the others are at work.
C21_Witness ==
    /\ args.workload = "goroutines"
    /\ args.goroutines = MaxGoroutines
    /\ pos["main"] = "gorWait"
    /\ gw[1] = "done"
    /\ \A k \in 2 .. MaxGoroutines : gw[k] = "work"
    /\ gorWg = MaxGoroutines - 1

\* The place of event e among the events of main, 0 when it has not happened.
EventAt(e) == IF Happened(e) THEN CHOOSE n \in 1 .. Len(events) : events[n] = e ELSE 0

\* Event b has happened only after event a.
OnlyAfter(a, b) == Happened(b) => (Happened(a) /\ EventAt(a) < EventAt(b))

\* If both a and b have happened, a happened first.
InOrder(a, b) == (Happened(a) /\ Happened(b)) => EventAt(a) < EventAt(b)

\* The workload the switch selected has run and returned to main, and none
\* of its goroutines is left.
WorkloadOver ==
    /\ ran = (IF args.workload = "all" THEN AllProcs ELSE {args.workload})
    /\ \A g \in AllProcs : pos[g] \in {"none", "exited"}
    /\ \A k \in 1 .. MaxGoroutines : gw[k] \in {"none", "done"}
    /\ pos["main"] \notin {"parse", "cpuProfile", "trace", "switch", "runCPU", "cpuLoop",
                           "runMemory", "memSleep", "runGoroutines", "gorLoop",
                           "gorClose", "gorWait", "runAll", "allWait"}

\* C29: the CPU profile and the trace that were asked for are started before
\* the workload begins and are stopped only when main returns normally, by
\* its deferred calls: after the statistics are printed, the trace before
\* the CPU profile, and not at all when a fatal error ends the process.  The
\* memory, block and mutex profiles are written in that order, and only
\* after the selected workload has completed.
C29_ProfilingOrder ==
    /\ ran # {} => Happened("Starting workload")
    /\ Happened("Starting workload") =>
          /\ "cpuprofile" \in args.profiles =>
                EventAt("StartCPUProfile") \in 1 .. EventAt("Starting workload") - 1
          /\ "trace" \in args.profiles =>
                EventAt("traceStart") \in 1 .. EventAt("Starting workload") - 1
    /\ InOrder("StartCPUProfile", "traceStart")
    /\ \A stop \in {"traceStop", "StopCPUProfile"} :
          /\ OnlyAfter("printStats", stop)
          /\ Happened(stop) => (fatal = "" /\ pos["main"] \in {"return", "exited"})
    /\ OnlyAfter("traceStart", "traceStop")
    /\ OnlyAfter("StartCPUProfile", "StopCPUProfile")
    /\ InOrder("traceStop", "StopCPUProfile")
    /\ (pos["main"] = "exited" /\ fatal = "") =>
          /\ Happened("StartCPUProfile") => Happened("StopCPUProfile")
          /\ Happened("traceStart") => Happened("traceStop")
    /\ \A w \in {"WriteHeapProfile", "blockWriteTo", "mutexWriteTo"} :
          /\ OnlyAfter("Workload completed", w)
          /\ OnlyAfter("Starting workload", w)
          /\ InOrder(w, "printStats")
    /\ Happened("Workload completed") => WorkloadOver
    /\ InOrder("WriteHeapProfile", "blockWriteTo")
    /\ InOrder("blockWriteTo", "mutexWriteTo")
    /\ InOrder("WriteHeapProfile", "mutexWriteTo")

\* main has returned normally with every profile asked for and all the
\* workloads run: each profile was started, written and stopped.
C29_Witness ==
    /\ args.profiles = Profiles
    /\ args.workload = "all"
    /\ pos["main"] = "exited"
    /\ fatal = ""
    /\ defers = <<>>
    /\ Happened("WriteHeapProfile")
    /\ Happened("blockWriteTo")
    /\ Happened("mutexWriteTo")
    /\ EventAt("printStats") < EventAt("traceStop")
    /\ EventAt("traceStop") < EventAt("StopCPUProfile")

----
(***************************************************************************)
(* Properties of /api/users requests, from the count parameter on.         *)
(***************************************************************************)

\* No request is between its make and the end of its loop.
LoopsDone == \A p \in Handlers : pc[p] \in {"idle", "make", "incLock", "incAdd", "incUnlock"}

\* C25: requests overwrite ids 1..n instead of adding to the cache: while no
\* tick has removed an entry, after requests with counts c1..ck the keys are
\* exactly 1..max(c1..ck) and the size is that maximum, which is at most the
\* sum; so a tick removes an entry only after a single request with a count
\* above the threshold.
C25_SizeIsMaxNotSum ==
    /\ (LoopsDone /\ ~removed) =>
          /\ DOMAIN userCache = 1 .. maxAsked
          /\ Cardinality(DOMAIN userCache) = maxAsked
    /\ Cardinality(DOMAIN userCache) <= maxAsked
    /\ maxAsked <= sumAsked
    /\ removed => maxAsked > Threshold

\* Two requests, for Threshold and for Threshold - 1 users, are done: the
\* map holds Threshold entries, not 2 * Threshold - 1.
C25_Witness ==
    /\ LoopsDone
    /\ ~ticked
    /\ requestCount = 2
    /\ maxAsked = Threshold
    /\ sumAsked = 2 * Threshold - 1
    /\ DOMAIN userCache = 1 .. Threshold

\* A step of a request whose count is zero or negative, up to the end of its
\* loop: it leaves the map alone, and goes on to incrementCounter() or, the
\* make having panicked, ends.
C26_Step ==
    \A p \in Handlers :
        (count[p] <= 0 /\ pc[p] \in {"make", "loop"} /\ pc'[p] # pc[p]) =>
            /\ userCache' = userCache
            /\ pc'[p] \in {"loop", "incLock", "idle"}

\* C26: a request whose count is zero or negative inserts nothing: none of
\* its steps changes the map and it never asks for the lock.  A request
\* without a count parameter, or with one that is no number, has the default
\* count and writes the ids from 1 to the default.
C26_EmptyAndDefaultCounts ==
    /\ [][C26_Step]_vars
    /\ [](\A p \in Handlers :
             (EffectiveCount(query[p]) <= 0) =>
                 pc[p] \notin {"lock", "enter", "store", "unlock"})
    /\ [](\A p \in Handlers :
             (query[p].kind # "number" /\ pc[p] \in {"make", "loop", "lock", "enter", "store", "unlock", "incLock", "incAdd", "incUnlock"}) =>
                 /\ count[p] = DefaultCount
                 /\ pc[p] \in {"incLock", "incAdd", "incUnlock"} =>
                       /\ i[p] = DefaultCount
                       /\ (1 .. DefaultCount) \subseteq inserted
                       /\ (1 .. DefaultCount) \ gone \subseteq DOMAIN userCache)

\* A request with count -1 has panicked in its make after a request without
\* a count parameter had written the ids from 1 to the default.
C26_Witness ==
    /\ pc["h1"] = "idle"
    /\ query["h1"] = [kind |-> "number", n |-> -1]
    /\ requestCount = 1
    /\ maxAsked = DefaultCount
    /\ sumAsked = DefaultCount
    /\ DOMAIN userCache = 1 .. DefaultCount

----
(***************************************************************************)
(* Progress, under the fair scheduling of SpecFair.                        *)
(***************************************************************************)

\* The positions of a handler from its call of Lock or RLock on cacheMu up to
\* its Unlock or RUnlock: waiting for the lock, or holding it.
AtCacheMu ==
    {"lock", "enter", "store", "unlock",
     "statsRLock", "statsRead", "statsRUnlock",
     "getRLock", "getRead", "getRUnlock"}

\* C12: no cache operation blocks for ever: a Put, a Size read, a Get and a
\* tick that try to take cacheMu take it, finish and release it (the only way
\* out of the positions at cacheMu is the release), so a lock that is held
\* is given up.
C12_NoOperationBlocksForever ==
    /\ \A p \in Handlers :
          (pc[p] \in AtCacheMu) ~> (pc[p] \notin AtCacheMu /\ cacheMu.w # p /\ p \notin cacheMu.readers)
    /\ (wpc \in {"lock", "enter", "check", "unlock"}) ~> (wpc = "wait" /\ cacheMu.w # "worker")

\* A Put and a Size read wait for the lock while the worker holds it.
C12_Witness ==
    /\ cacheMu.w = "worker"
    /\ \E p, q \in Handlers : pc[p] = "lock" /\ pc[q] = "statsRLock"

\* C13: the background worker never terminates and is never stopped: it is
\* always waiting for a tick or serving one, and it serves ticks again and
\* again, also after every request has been served.
C13_WorkerTicksForever ==
    /\ [](wpc \in {"wait", "lock", "enter", "check", "unlock"})
    /\ []<>(wpc = "check")
    /\ []<>(wpc = "wait")

\* The worker serves a tick after it has served one and all requests are counted.
C13_Witness ==
    /\ wpc = "check"
    /\ ticked
    /\ requestCount = MaxRequests

\* No Put is in progress: no handler is inside createUsersHandler.
PutsStopped == \A p \in Handlers : pc[p] \notin {"loop", "lock", "enter", "store", "unlock"}

\* The body of a tick: above the threshold it lowers the size by exactly one,
\* otherwise it leaves the size alone; so no tick takes the size below the
\* threshold and a map of size s above it is at the threshold after exactly
\* s - Threshold ticks.
C23_TickStep ==
    (wpc = "check" /\ wpc' = "unlock") =>
        /\ Cardinality(DOMAIN userCache) > Threshold =>
              Cardinality(DOMAIN userCache') = Cardinality(DOMAIN userCache) - 1
        /\ Cardinality(DOMAIN userCache) <= Threshold =>
              Cardinality(DOMAIN userCache') = Cardinality(DOMAIN userCache)

\* C23: when the Puts stop for good with the map larger than the threshold,
\* the ticks take its size down to exactly the threshold, one entry a tick,
\* and it stays there for ever.
C23_DrainsToThreshold ==
    /\ [][C23_TickStep]_vars
    /\ []((Cardinality(DOMAIN userCache) > Threshold /\ []PutsStopped)
              => <>[](Cardinality(DOMAIN userCache) = Threshold))

\* The second tick after the Puts of a request for Threshold + 2 users has
\* brought the map to the threshold.
C23_Witness ==
    /\ wpc = "unlock"
    /\ PutsStopped
    /\ inserted = 1 .. (Threshold + 2)
    /\ Cardinality(gone) = 2
    /\ Cardinality(DOMAIN before) = Threshold + 1
    /\ Cardinality(DOMAIN userCache) = Threshold

----
(***************************************************************************)
(* fibonacci and fibonacciCompute.  A uint64 is the sequence of its four   *)
(* 16-bit digits, the lowest first; the sum of two uint64 is taken digit   *)
(* by digit and the carry out of the highest digit is dropped, as the      *)
(* machine does.                                                           *)
(***************************************************************************)

\* The base of the digits of a uint64.
Limb == 2 ^ 16

\* The largest argument of fibonacciCompute applied here.
MaxIter == 12

\* The arguments of fibonacciCompute below zero go down to -MaxNeg.
MaxNeg == 3

\* fibonacci(20), the argument in fibonacciCompute.
FibArg == 20

\* var result uint64
Zero64 == <<0, 0, 0, 0>>

\* uint64(n) of an int n: n itself from 0 on, and 2^64 + n below 0, which is
\* every digit of -n - 1 taken from the largest digit.
U64(n) ==
    IF n >= 0
       THEN <<n % Limb, n \div Limb, 0, 0>>
       ELSE <<(Limb - 1) - ((-n - 1) % Limb), (Limb - 1) - ((-n - 1) \div Limb),
              Limb - 1, Limb - 1>>

\* The sums of the digits of a and b with the carries, lowest first.
DigitSums(a, b) ==
    LET s1 == a[1] + b[1]
        s2 == a[2] + b[2] + (s1 \div Limb)
        s3 == a[3] + b[3] + (s2 \div Limb)
        s4 == a[4] + b[4] + (s3 \div Limb)
    IN  <<s1, s2, s3, s4>>

\* a + b on uint64.
Add64(a, b) ==
    LET s == DigitSums(a, b)
    IN  <<s[1] % Limb, s[2] % Limb, s[3] % Limb, s[4] % Limb>>

\* a + b does not fit in a uint64.
Overflows64(a, b) == DigitSums(a, b)[4] >= Limb

RECURSIVE fibonacciBaseTwo(_)
\* A fibonacci whose recursion stops one step early.
fibonacciBaseTwo(n) ==
    IF n <= 2
       THEN U64(n)
       ELSE Add64(fibonacciBaseTwo(n - 1), fibonacciBaseTwo(n - 2))

RECURSIVE fibonacci(_)
\* func fibonacci(n int) uint64
fibonacci(n) ==
    IF n <= 1
       THEN U64(n)
       ELSE Add64(fibonacci(n - 1), fibonacci(n - 2))

\* The arguments fibonacci is called with: 20 in fibonacciCompute, and from
\* there down to 0 in its own calls.
FibInputs == 0 .. FibArg

\* The arguments of fibonacciCompute: the iterations parameter of
\* /api/compute, any number.
ComputeInputs == -MaxNeg .. MaxIter

\* fibonacci(n) is called and returns its result.
FibonacciCall ==
    /\ fcall.pc = "idle"
    /\ \E n \in FibInputs :
          fcall' = [pc |-> "called", n |-> n, i |-> 0, result |-> fibonacci(n)]
    /\ UNCHANGED <<userCache, cacheMu, requestCount, countMu, pc, count, i, user, key, res, wpc>>
    /\ UNCHANGED hist
    /\ UNCHANGED <<leakVars, cliVars, timeVars, queryVars, countVars>>

\* fibonacciCompute(n) is called: var result uint64; i := 0.
FibonacciComputeCall ==
    /\ fcall.pc = "idle"
    /\ \E n \in ComputeInputs :
          fcall' = [pc |-> "loop", n |-> n, i |-> 0, result |-> Zero64]
    /\ UNCHANGED <<userCache, cacheMu, requestCount, countMu, pc, count, i, user, key, res, wpc>>
    /\ UNCHANGED hist
    /\ UNCHANGED <<leakVars, cliVars, timeVars, queryVars, countVars>>

\* i < n: result += fibonacci(20); i++
FibonacciComputeLoop ==
    /\ fcall.pc = "loop"
    /\ fcall.i < fcall.n
    /\ fcall' = [fcall EXCEPT !.result = Add64(fcall.result, fibonacci(FibArg)),
                              !.i = fcall.i + 1]
    /\ UNCHANGED <<userCache, cacheMu, requestCount, countMu, pc, count, i, user, key, res, wpc>>
    /\ UNCHANGED hist
    /\ UNCHANGED <<leakVars, cliVars, timeVars, queryVars, countVars>>

\* The loop is over: return result.
FibonacciComputeReturn ==
    /\ fcall.pc = "loop"
    /\ ~(fcall.i < fcall.n)
    /\ fcall' = [fcall EXCEPT !.pc = "returned"]
    /\ UNCHANGED <<userCache, cacheMu, requestCount, countMu, pc, count, i, user, key, res, wpc>>
    /\ UNCHANGED hist
    /\ UNCHANGED <<leakVars, cliVars, timeVars, queryVars, countVars>>

NextFib ==
    \/ FibonacciCall
    \/ FibonacciComputeCall
    \/ FibonacciComputeLoop
    \/ FibonacciComputeReturn

\* SpecFib: a call of fibonacci or a call of fibonacciCompute.
SpecFib == Init /\ [][NextFib]_vars

RECURSIVE FibFrom(_, _, _)
\* The Fibonacci number k places after a, the number after a being b.
FibFrom(k, a, b) == IF k = 0 THEN a ELSE FibFrom(k - 1, b, a + b)

\* The n-th Fibonacci number: 0, 1, 1, 2, 3, 5, ...
FibNumber(n) == FibFrom(n, 0, 1)

\* The uint64 u is the integer v.  A uint64 is never below zero.
Is(u, v) == v >= 0 /\ u = <<v % Limb, v \div Limb, 0, 0>>

\* C30: fibonacci(n) returns n for n <= 1 and fibonacci(n-1) +
\* fibonacci(n-2) otherwise, the n-th Fibonacci number, for every argument
\* it is called with.  fibonacciCompute(n) returns n * fibonacci(20) =
\* n * 6765 for n >= 0 and 0 for n <= 0, and no addition of its loop
\* overflows uint64.
C30_FibonacciAndCompute ==
    /\ fcall.pc = "called" /\ fcall.n <= 1 => Is(fcall.result, fcall.n)
    /\ fcall.pc = "called" /\ fcall.n >= 2 =>
          fcall.result = Add64(fibonacci(fcall.n - 1), fibonacci(fcall.n - 2))
    /\ fcall.pc = "called" => Is(fcall.result, FibNumber(fcall.n))
    /\ fcall.pc = "called" /\ fcall.n = FibArg => Is(fcall.result, 6765)
    /\ fcall.pc = "loop" =>
          /\ Is(fcall.result, fcall.i * 6765)
          /\ ~Overflows64(fcall.result, fibonacci(FibArg))
    /\ fcall.pc = "returned" =>
          /\ fcall.n >= 0 => (fcall.i = fcall.n /\ Is(fcall.result, fcall.n * 6765))
          /\ fcall.n <= 0 => (fcall.i = 0 /\ fcall.result = Zero64)

\* fibonacciCompute has returned a result above sixteen bits, the sum of
\* ten or more fibonacci(20).
C30_Witness ==
    /\ fcall.pc = "returned"
    /\ fcall.n >= 10
    /\ fcall.i = fcall.n
    /\ fcall.result[2] > 0
    /\ Is(fcall.result, fcall.n * 6765)

====
